---- MODULE Spec2Model ----
(***************************************************************************)
(* Request dispatch pipeline of weapp-backend-api                          *)
(* (src/src/weapp-backend-api.js): BackendApi.sendRequest / loadApiConfig, *)
(* the Deferred gate, WeappBackendApi.$sendHttpRequest with beforeSend /   *)
(* afterSend, the in-flight registry `sending`, the response cache and the *)
(* success / fail handlers.                                                *)
(*                                                                         *)
(* JavaScript is single threaded: one action of the model is one piece of  *)
(* code that runs without suspension (a synchronous call made by the       *)
(* caller, one promise reaction, or one transport callback followed by the *)
(* promise reaction it triggers).  Promise reactions wait in the FIFO      *)
(* microtask queue `micro`, and so do the jobs by which a promise resolved *)
(* with another promise adopts its state; a transport callback is a task   *)
(* of its own and can only start when the microtask queue is empty.        *)
(*                                                                         *)
(* JS strings that the code takes apart or concatenates (names, urls) are  *)
(* sequences of tokens; a JS object is a record and an undefined property  *)
(* is a field the record does not have.  The string body wx.uploadFile     *)
(* delivers is the record [jsonText |-> v] when it is the JSON text of v.  *)
(***************************************************************************)
EXTENDS Integers, Sequences, FiniteSets, TLC

\* ------------------------------------------------------------------ bounds
MaxCalls == 3      \* number of sendRequest / loadApiConfig calls issued

\* ------------------------------------------------------- program constants
REQUEST_API_FAIL_STATUS == 1

\* ------------------------------------------------------------ input domains
NoTtl == -1                            \* a `_cacheTtl` for which `_cacheTtl >= 0` is false
ConfigUrl == <<"cfg">>                 \* url of the remote configuration
Names == {<<"getList">>, <<"getUser">>}

\* WeappBackendApi.defaults.requestOptions
defaultRequestOptions ==
    [header |-> [contentType |-> "application/x-www-form-urlencoded"], dataType |-> "json"]

\* keys whose values are plain objects (extend(true, ...) recurses into them)
ObjectKeys == {"header"}
\* keys whose values are arrays
ArrayKeys == {"list"}
\* keys whose values are of any type: a plain object, an instance of a class,
\* or a primitive
DataKeys == {"data"}

\* the endpoint configuration the instance is constructed with
InitApiConfig == (<<"getList">> :> [method |-> "GET", url |-> <<"u1">>])

\* the configuration a remote load delivers, named by the token that the
\* response carries in its `data`
ConfigTokens == {"cfgA"}
ConfigOf(tok) ==
    IF tok \in ConfigTokens THEN (<<"getUser">> :> [method |-> "GET", url |-> <<"u2">>])
    ELSE [n \in {} |-> [method |-> "GET"]]

\* per-call control options: the defaults, and the calls that differ from them
\* in one option (or, for the cache, in the normalizer as well)
Options(intercept, show, ttl, norm) ==
    [_interceptDuplicateRequest |-> intercept, _showLoading |-> show,
     _cacheTtl |-> ttl, _normalizeRequestResult |-> norm]
OptionSets ==
    { Options(FALSE, TRUE, NoTtl, "default"),
      Options(TRUE, TRUE, NoTtl, "default"),
      Options(FALSE, FALSE, NoTtl, "default"),
      Options(FALSE, TRUE, 1, "default"),
      Options(FALSE, TRUE, 1, "adapt") }
LoadOptionSets == { Options(FALSE, TRUE, NoTtl, "default") }

\* response bodies the backend can return for a payload token d
Bodies(d) ==
    { [status |-> 0, data |-> d, statusInfo |-> [message |-> "ok"]],
      [success |-> TRUE, result |-> d],
      [status |-> 1, statusInfo |-> [message |-> "no"]] }

\* what the transport hands to `success` / `fail`
TransportResults(d) ==
    { [statusCode |-> 200, data |-> b] : b \in Bodies(d) }
      \cup { [statusCode |-> 500, data |-> [success |-> TRUE, result |-> d]],
             [errMsg |-> <<"request:fail ", "t", "imeout">>] }

\* --------------------------------------------------------------- the state
VARIABLES
    apiConfig,   \* this.apiConfig: endpoint name -> partial descriptor
    sending,     \* this.sending: fingerprint -> id of the call whose descriptor is stored
    loading,     \* this.loading
    stalled,     \* this.stalled: the Deferreds of the queued calls, by call id
    cache,       \* this.simpleStorage: fingerprint -> [value, ttl], ttl being the
                 \* time the entry still has to live (its expiry minus the current time)
    calls,       \* every call issued so far: its arguments, descriptor, branch and promise
    micro,       \* the promise reactions waiting to run, oldest first
    heap,        \* the objects that resolving a descriptor reads and creates, by
                 \* address: this.apiConfig and its entries, the default request
                 \* options, the options objects of the callers, the descriptors
    ev           \* what the last step did: the call it ran for, the operations it
                 \* invoked, and its datum (the data a settled promise is fulfilled
                 \* with; for a released call, the data of the load that released it)

vars == <<apiConfig, sending, loading, stalled, cache, calls, micro, heap, ev>>

NoDesc == [none |-> TRUE]
NoResult == [none |-> TRUE]
\* the value of `requestResult.data` when the response has no body: undefined
\* or the empty string, which the code does not tell apart
Undefined == [undefined |-> TRUE]
\* the body `null`; the other falsy values that are JSON values, 0 and false,
\* are [falsy |-> "0"] and [falsy |-> "false"]
Null == [falsy |-> "null"]
\* `!result`
falsy(result) == result = Undefined \/ "falsy" \in DOMAIN result
EmptyMap == [h \in {} |-> 0]

\* ----------------------------------------------------------- pure helpers
\* The values of `data`: a plain object with the keys q and r, inserted in that
\* order, is the record of its keys ([q |-> 1], [r |-> 2], [q |-> 1, r |-> 2]);
\* the falsy values 0, false, null and '' are [falsy |-> "0"], [falsy |-> "false"],
\* Null and [falsy |-> "''"]; an instance of a class is [instance |-> its class],
\* with the field `circular` when one of its properties refers to the instance
\* itself.  A key whose value is undefined is a key the record does not have.
\* No plain object refers to itself: extend(true, ...) recurses into a plain
\* object without end, so for such an argument sendRequest throws a RangeError
\* before a descriptor exists and leaves the state as it was.
\* isPlainObject of the npm package `extend`
isPlainObject(value) ==
    DOMAIN value \cap {"undefined", "falsy", "instance", "circular"} = {}

\* extend(true, target, src) of the npm package `extend` (jQuery.extend): key-wise
\* merge, src wins; a plain object is merged recursively into the plain object
\* the target has under the key, and an array likewise into the array the
\* target has under the key, index by index; any other value, an instance of
\* a class included, is assigned as it is
extendArray(target, src) ==
    [i \in 1..(IF Len(src) > Len(target) THEN Len(src) ELSE Len(target)) |->
        IF i <= Len(src) THEN src[i] ELSE target[i]]

RECURSIVE extend(_, _)
extend(target, src) ==
    [k \in DOMAIN target \cup DOMAIN src |->
        IF k \notin DOMAIN src THEN target[k]
        ELSE IF k \in DOMAIN target /\ k \in ObjectKeys THEN extend(target[k], src[k])
        ELSE IF k \in DOMAIN target /\ k \in ArrayKeys THEN extendArray(target[k], src[k])
        ELSE IF k \in DOMAIN target /\ k \in DataKeys
                /\ isPlainObject(target[k]) /\ isPlainObject(src[k])
             THEN extend(target[k], src[k])
        ELSE src[k]]

\* (variant) the position of the last occurrence
indexOf_last(s, ch) ==
    IF \E i \in 1..Len(s) : s[i] = ch
    THEN CHOOSE i \in 1..Len(s) : s[i] = ch /\ \A j \in (i+1)..Len(s) : s[j] # ch
    ELSE 0

\* String.prototype.indexOf for a one-token needle; 0 stands for JS -1
indexOf(s, ch) ==
    IF \E i \in 1..Len(s) : s[i] = ch
    THEN CHOOSE i \in 1..Len(s) : s[i] = ch /\ \A j \in 1..(i-1) : s[j] # ch
    ELSE 0

\* BackendApi._getRequestOptions
_getRequestOptions(cfg, name, options, namespace) ==
    LET slashIndex == indexOf(name, "/")
        _name0 == IF slashIndex # 0 THEN SubSeq(name, 1, slashIndex - 1) ELSE name
        urlAppend == IF slashIndex # 0 THEN SubSeq(name, slashIndex, Len(name)) ELSE <<>>
        _name == IF namespace # <<>> THEN namespace \o <<".">> \o _name0 ELSE _name0
        found == name # <<>> /\ _name \in DOMAIN cfg
        api == IF found
               THEN [cfg[_name] EXCEPT !.url = cfg[_name].url \o urlAppend]
               ELSE [k \in {} |-> 0]
    IN extend(extend(defaultRequestOptions, api), options)

\* blueimp-md5, taken as an injective digest
md5(s) == <<"md5">> \o s

\* a string token holding a lone surrogate: md5 encodes its argument with
\* encodeURIComponent, which throws a URIError for such a string
LoneSurrogate == "\\uD800"
md5Throws(s) == \E i \in 1..Len(s) : s[i] = LoneSurrogate

\* JSON.stringify throws a TypeError for an instance that refers to itself
JSONstringifyThrows(data) == "circular" \in DOMAIN data
\* JSON.stringify of an object: the tokens of its JSON text, which lists the
\* own enumerable properties in the order of their insertion (q before r; an
\* instance of a class in use has none)
JSONstringify(data) ==
    LET keys == IF isPlainObject(data)
                THEN SelectSeq(<<"q", "r">>, LAMBDA k : k \in DOMAIN data)
                ELSE <<>>
        numeral(n) == IF n = 1 THEN "1" ELSE IF n = 2 THEN "2" ELSE "0"
        member(k) == <<k, ":", numeral(data[k])>>
    IN <<"{">>
         \o (IF keys = <<>> THEN <<>>
             ELSE IF Len(keys) = 1 THEN member(keys[1])
             ELSE member(keys[1]) \o <<",">> \o member(keys[2]))
         \o <<"}">>
\* Object.prototype.toString
toString(data) == "[object Object]"

\* the `data` string of _getRequestInfoHash: empty unless `requestOptions.data`
\* is truthy, then its JSON text, or its string form when JSON.stringify throws
serializedData(requestOptions) ==
    IF "data" \notin DOMAIN requestOptions \/ falsy(requestOptions.data) THEN <<>>
    ELSE IF JSONstringifyThrows(requestOptions.data) THEN <<toString(requestOptions.data)>>
    ELSE JSONstringify(requestOptions.data)

\* (variant) the fingerprint is taken from `url`
_getRequestInfoHash_url(requestOptions) ==
    LET data == serializedData(requestOptions)
        method == IF "method" \in DOMAIN requestOptions THEN requestOptions.method ELSE "undefined"
        url == IF "url" \in DOMAIN requestOptions THEN requestOptions.url ELSE <<"undefined">>
        requestInfo == <<method, " ">> \o url \o <<" ">> \o data
    IN IF md5Throws(requestInfo) THEN requestInfo ELSE md5(requestInfo)

\* WeappBackendApi._getRequestInfoHash: md5 of `method + ' ' + _url + ' ' + data`,
\* or that string itself when md5 throws
_getRequestInfoHash(requestOptions) ==
    LET data == serializedData(requestOptions)
        method == IF "method" \in DOMAIN requestOptions THEN requestOptions.method ELSE "undefined"
        _url == IF "_url" \in DOMAIN requestOptions THEN requestOptions._url ELSE <<"undefined">>
        requestInfo == <<method, " ">> \o _url \o <<" ">> \o data
    IN IF md5Throws(requestInfo) THEN requestInfo ELSE md5(requestInfo)

\* the warnings one run of _getRequestInfoHash logs in its two catch blocks
hashWarnings(requestOptions) ==
    LET data == serializedData(requestOptions)
        method == IF "method" \in DOMAIN requestOptions THEN requestOptions.method ELSE "undefined"
        _url == IF "_url" \in DOMAIN requestOptions THEN requestOptions._url ELSE <<"undefined">>
    IN (IF "data" \in DOMAIN requestOptions /\ ~falsy(requestOptions.data)
           /\ JSONstringifyThrows(requestOptions.data)
        THEN {"logger.warn:stringify"} ELSE {})
       \cup (IF md5Throws(<<method, " ">> \o _url \o <<" ">> \o data)
             THEN {"logger.warn:md5"} ELSE {})

\* (variant) the store never reports an entry
storageHas_never(c, key) == FALSE

\* simpleStorage.get / has: an entry is visible until its expiry
storageHas(c, key) == key \in DOMAIN c /\ c[key].ttl > 0
\* (variant) the store yields no entry to beforeSend
storageGet_miss(c, key) == NoResult
storageGet(c, key) == IF storageHas(c, key) THEN c[key].value ELSE NoResult
\* simpleStorage.set with a ttl
storageSet(c, key, value, ttl) == (key :> [value |-> value, ttl |-> ttl]) @@ c

\* (variant) no fingerprint is reported as in flight
_isSending_never(snd, requestOptions) == FALSE

\* WeappBackendApi._isSending
_isSending(snd, requestOptions) == _getRequestInfoHash(requestOptions) \in DOMAIN snd

\* (variant) the count takes every registry entry, whatever its `_showLoading`
_isAnySending_all(snd, cs, excludeNoLoading) == Cardinality(DOMAIN snd) # 0

\* WeappBackendApi._isAnySending
_isAnySending(snd, cs, excludeNoLoading) ==
    LET sendingCount ==
            IF excludeNoLoading
            THEN Cardinality({key \in DOMAIN snd : cs[snd[key]].desc._showLoading # FALSE})
            ELSE Cardinality(DOMAIN snd)
    IN sendingCount # 0

\* (variant) the entry is not written in the step that transmits the call
_addToSending_later(snd, c, requestOptions) == snd

\* WeappBackendApi._addToSending
_addToSending(snd, c, requestOptions) == (_getRequestInfoHash(requestOptions) :> c) @@ snd

\* (variant) the entry is left in the registry
_removeFromSending_keep(snd, requestOptions) == snd

\* WeappBackendApi._removeFromSending: `delete` of the fingerprint's property
_removeFromSending(snd, requestOptions) ==
    [key \in DOMAIN snd \ {_getRequestInfoHash(requestOptions)} |-> snd[key]]

\* the value of `delete this.sending[requestInfoHash]` in _removeFromSending:
\* this.sending is an ordinary object, whose properties are configurable, and
\* `delete` yields true for such a property and for a property that is absent
deleteResult(snd, requestOptions) == TRUE

\* (variant) the default normalizer wraps the body in an envelope
normalizeRequestResult_wrap(requestResult) ==
    [status |-> 0, data |-> requestResult, statusInfo |-> [message |-> "ok"]]

\* BackendApi.normalizeRequestResult: the identity
normalizeRequestResult(requestResult) == requestResult

\* a per-call `_normalizeRequestResult` adapting a backend that answers
\* {success, result}: function(requestOptions, body) {
\*     return {status: body.success ? 0 : 1, data: body.result, statusInfo: {message: 'adapted'}} }
adaptRequestResult(body) ==
    LET dt == IF "result" \in DOMAIN body THEN [data |-> body.result] ELSE [k \in {} |-> 0]
    IN dt @@ [status |-> IF "success" \in DOMAIN body /\ body.success THEN 0 ELSE 1,
              statusInfo |-> [message |-> "adapted"]]

\* `requestOptions._type === 'uploadFile'`
isUploadFile(requestOptions) ==
    "_type" \in DOMAIN requestOptions /\ requestOptions._type = "uploadFile"

\* A string that is a JSON text is the record [jsonText |-> v], v being the
\* value the text denotes; any other string is a record [text |-> tokens].
\* JSON.parse converts its argument to a string first: it returns null, 0 and
\* false as they are (their string forms are JSON texts), and throws for a
\* string that is no JSON text, the empty string included, for undefined and
\* for an object (whose string form is "[object Object]")
jsonParses(body) == "jsonText" \in DOMAIN body \/ "falsy" \in DOMAIN body
\* `try { requestResult.data = JSON.parse(requestResult.data) } catch (error) {...}`
JSONparse(body) == IF "jsonText" \in DOMAIN body THEN body.jsonText ELSE body

\* WeappBackendApi._normalizeRequestResult: the body after normalization
_normalizeRequestResult(requestOptions, body) ==
    LET data == IF isUploadFile(requestOptions) THEN JSONparse(body) ELSE body
    IN IF requestOptions._normalizeRequestResult # "default"
       THEN adaptRequestResult(data)
       ELSE normalizeRequestResult(data)

\* (variant) every body counts as a success
_ifApiSuccess_any(result) == TRUE

\* (variant) only an explicit zero status counts as success
_ifApiSuccess_strict(result) ==
    /\ ~falsy(result)
    /\ "status" \in DOMAIN result
    /\ result.status = 0

\* WeappBackendApi._ifApiSuccess, on the (normalized) body:
\* `if (result) { isApiSuccess = !result.status || result.status == 0; }`
_ifApiSuccess(result) ==
    /\ ~falsy(result)
    /\ ("status" \notin DOMAIN result \/ result.status = 0)

\* (variant) 304 is not taken as a success
isHttpRequestSuccess_no304(requestResult) ==
    /\ "statusCode" \in DOMAIN requestResult
    /\ requestResult.statusCode >= 200 /\ requestResult.statusCode < 300

\* the `statusCode >= 200 && statusCode < 300 || statusCode === 304` test of `success`
isHttpRequestSuccess(requestResult) ==
    /\ "statusCode" \in DOMAIN requestResult
    /\ \/ (requestResult.statusCode >= 200 /\ requestResult.statusCode < 300)
       \/ requestResult.statusCode = 304

\* the character codes String.prototype.charCodeAt yields for the tokens in use
charCodeAt0(tok) ==
    IF tok = "t" THEN 116 ELSE IF tok = "u" THEN 117 ELSE IF tok = "x" THEN 120
    ELSE IF tok = "request:fail " THEN 114 ELSE 0

\* (variant) the prefix is left in place
replaceRequestFail_keep(errMsg) == errMsg

\* String.prototype.replace('request:fail ', ''): drops the first occurrence
replaceRequestFail(errMsg) ==
    LET i == indexOf(errMsg, "request:fail ")
    IN IF i = 0 THEN errMsg ELSE SubSeq(errMsg, 1, i - 1) \o SubSeq(errMsg, i + 1, Len(errMsg))

\* requestResult.data = v  (an undefined v leaves no `data`)
setData(requestResult, v) ==
    IF v = Undefined
    THEN [k \in DOMAIN requestResult \ {"data"} |-> requestResult[k]]
    ELSE [data |-> v] @@ requestResult

\* requestResult.data
getData(requestResult) ==
    IF "data" \in DOMAIN requestResult THEN requestResult.data ELSE Undefined

\* ------------------------------------------- the pipeline, as state updates
\* S is the part of the state one handler reads and writes:
\* [calls, sending, cache, micro, ops, data, result]: ops are the operations
\* invoked so far, data and result what the promise of $sendHttpRequest is
\* settled with ([data, requestResult] when fulfilled, requestResult when rejected)
St(cs, snd, ch, mq) ==
    [calls |-> cs, sending |-> snd, cache |-> ch, micro |-> mq, ops |-> {},
     data |-> "undefined", result |-> NoResult]

\* WeappBackendApi._showLoading
_showLoading(S, requestOptions) ==
    [S EXCEPT !.ops = @ \cup (IF requestOptions._showLoading # FALSE THEN {"wx.showLoading"} ELSE {})
                        \cup {"wx.showNavigationBarLoading"}]

\* WeappBackendApi._hideLoading
_hideLoading(S) == [S EXCEPT !.ops = @ \cup {"wx.hideLoading", "wx.hideNavigationBarLoading"}]

\* (variant) afterSend leaves the registry as it is
afterSend_keepEntry(S, c) ==
    [S EXCEPT !.ops = @ \cup (IF S.calls[c].desc._showLoading # FALSE
                              THEN {"afterSend:_showLoading"} ELSE {"afterSend"})]

\* WeappBackendApi.afterSend
afterSend(S, c) ==
    LET S1 == [S EXCEPT !.sending = _removeFromSending(S.sending, S.calls[c].desc),
                        !.ops = @ \cup (IF S.calls[c].desc._showLoading # FALSE
                                        THEN {"afterSend:_showLoading"} ELSE {"afterSend"})
                                  \cup hashWarnings(S.calls[c].desc)
                                  \cup (IF ~deleteResult(S.sending, S.calls[c].desc)
                                        THEN {"logger.warn:remove"} ELSE {})]
    IN IF ~_isAnySending(S1.sending, S1.calls, TRUE) THEN _hideLoading(S1) ELSE S1

\* WeappBackendApi.commonFailTip
commonFailTip(S, c, requestOptions) ==
    IF "_showFailTip" \in DOMAIN requestOptions /\ requestOptions._showFailTip = FALSE
    THEN S
    ELSE [S EXCEPT !.ops = @ \cup {"wx.showToast"}, !.calls[c].tips = @ + 1]

\* (variant) the failed request is handed to the transport once more
commonFailStatusHandler_retry(S, c, requestResult) ==
    LET S1 == [S EXCEPT !.ops = @ \cup {"logger.warn:fail", "failStatusHandler", "wx.request"},
                        !.calls[c].reports = @ + 1,
                        !.calls[c].sent = @ + 1]
        S2 == commonFailTip(S1, c, S.calls[c].desc)
    IN [S2 EXCEPT !.calls[c].st = "rejected", !.result = requestResult]

\* WeappBackendApi.commonFailStatusHandler: log, custom hook, tip, Promise.reject(requestResult)
commonFailStatusHandler(S, c, requestResult) ==
    LET S1 == [S EXCEPT !.ops = @ \cup {"logger.warn:fail", "failStatusHandler"},
                        !.calls[c].reports = @ + 1]
        S2 == commonFailTip(S1, c, S.calls[c].desc)
    IN [S2 EXCEPT !.calls[c].st = "rejected", !.result = requestResult]

\* WeappBackendApi._successHandler
_successHandler(SS, c, requestResult0) ==
    LET requestOptions == SS.calls[c].desc
        S == [SS EXCEPT !.ops = @ \cup {"_normalizeRequestResult"}
                                  \cup (IF isUploadFile(requestOptions)
                                           /\ ~jsonParses(getData(requestResult0))
                                        THEN {"logger.warn:parse"} ELSE {})]
        result == _normalizeRequestResult(requestOptions, getData(requestResult0))
        requestResult == setData(requestResult0, result)
        requestInfoHash == _getRequestInfoHash(requestOptions)
        \* `if (!result) { requestResult.data = result = {}; }`
        failed == IF falsy(result) THEN [k \in {} |-> 0] ELSE result
    IN IF _ifApiSuccess(result)
       THEN LET S0 == IF requestOptions._cacheTtl >= 0
                      THEN [S EXCEPT !.ops = @ \cup {"simpleStorage.has"}
                                               \cup hashWarnings(requestOptions)]
                      ELSE S
                S1 == IF requestOptions._cacheTtl >= 0 /\ ~storageHas(S.cache, requestInfoHash)
                      THEN [S0 EXCEPT !.cache = storageSet(S.cache, requestInfoHash,
                                                           requestResult, requestOptions._cacheTtl),
                                      !.ops = @ \cup {"simpleStorage.set"}]
                      ELSE S0
            IN [S1 EXCEPT !.calls[c].st = "resolved",
                          !.data = IF "data" \in DOMAIN result THEN result.data ELSE "undefined",
                          !.result = requestResult]
       ELSE commonFailStatusHandler(S, c, setData(requestResult, [_errorType |-> "B"] @@ failed))

\* (variant) the synthesized envelope carries no error category
_failHandler_untyped(S, c, requestResult) ==
    commonFailStatusHandler(S, c,
        setData(requestResult, [status |-> REQUEST_API_FAIL_STATUS,
                                statusInfo |-> [message |-> <<"REQUEST_API_FAIL_MESSAGE">>]]))

\* (variant) the transport's result is handed on as it is
_failHandler_passthrough(S, c, requestResult) == commonFailStatusHandler(S, c, requestResult)

\* WeappBackendApi._failHandler
_failHandler(S, c, requestResult) ==
    LET errMsgDetail == IF "errMsg" \in DOMAIN requestResult
                        THEN replaceRequestFail(requestResult.errMsg) ELSE <<>>
        result ==
            IF "statusCode" \in DOMAIN requestResult
            THEN [status |-> requestResult.statusCode,
                  _errorType |-> "H",
                  statusInfo |-> [message |-> <<"REQUEST_HTTP_FAIL_MESSAGE">>,
                                  detail |-> [requestOptions |-> S.calls[c].desc,
                                              requestResult |-> requestResult.statusCode]]]
            ELSE [status |-> IF errMsgDetail # <<>> THEN charCodeAt0(errMsgDetail[1])
                             ELSE REQUEST_API_FAIL_STATUS,
                  _errorType |-> "A",
                  statusInfo |-> [message |-> IF errMsgDetail # <<>> THEN errMsgDetail
                                              ELSE <<"REQUEST_API_FAIL_MESSAGE">>,
                                  detail |-> IF "errMsg" \in DOMAIN requestResult
                                             THEN [errMsg |-> requestResult.errMsg]
                                             ELSE [k \in {} |-> 0]]]
    IN commonFailStatusHandler(S, c, setData(requestResult, result))

\* the promise $sendHttpRequest returned for call c settles: the caller of a
\* direct sendRequest holds that very promise; loadApiConfig has chained its
\* reactions on it, and the one that applies is scheduled; the promise of a
\* call released from the queue, `dfd.then(() => this.$sendHttpRequest(...))`,
\* follows it by a reaction of its own once it has subscribed to it
settleInner(S, c, outcome) ==
    LET S1 == [S EXCEPT !.calls[c].inner = outcome]
    IN IF S.calls[c].kind = "load"
       THEN [S1 EXCEPT !.micro = Append(@, [t |-> "loaded", c |-> c, data |-> S.data])]
       ELSE IF S.calls[c].adopt = "direct"
       THEN [S1 EXCEPT !.calls[c].promise = outcome]
       ELSE IF S.calls[c].adopt = "subscribed"
       THEN [S1 EXCEPT !.micro = Append(@, [t |-> "adopt", c |-> c, target |-> "outer"])]
       ELSE S1

\* what the reaction `promise.then(onFulfilled, onRejected)` of $sendHttpRequest
\* returns settles the promise $sendHttpRequest returned: the array
\* _successHandler returns fulfils it in the same job; the Promise.reject(...)
\* commonFailStatusHandler returns is a thenable, which the promise adopts in
\* two later jobs (see RunResolveThenable, RunAdopt).
\* Nothing refers to the arguments and the descriptor of a settled call any more.
chain(S, c) ==
    LET S1 == [S EXCEPT !.calls[c].name = <<>>, !.calls[c].options = NoDesc,
                        !.calls[c].desc = NoDesc, !.calls[c].during = {}]
    IN IF S.calls[c].st = "resolved"
       THEN settleInner(S1, c, "fulfilled")
       ELSE [S1 EXCEPT !.micro = Append(@, [t |-> "thenable", c |-> c, target |-> "inner"])]

\* (variant) the fulfilment reaction returns a promise that stays pending
onFulfilled_pending(S, c, requestResult) == [S EXCEPT !.ops = @ \cup {"onFulfilled"}]

\* the reactions `promise.then(onFulfilled, onRejected)` of $sendHttpRequest
onFulfilled(S, c, requestResult) ==
    chain(_successHandler(afterSend([S EXCEPT !.ops = @ \cup {"onFulfilled"}], c), c, requestResult), c)
onRejected(S, c, requestResult) ==
    chain(_failHandler(afterSend([S EXCEPT !.ops = @ \cup {"onRejected"}], c), c, requestResult), c)

\* (variant) the duplicate is turned down with a rejected promise
_interceptDuplicateRequest_rejects(S, c) ==
    [S EXCEPT !.calls[c].st = "rejected", !.calls[c].promise = "rejected",
              !.ops = @ \cup {"logger.warn:duplicate"}]

\* WeappBackendApi._interceptDuplicateRequest: warns and returns new Promise(function() {})
_interceptDuplicateRequest(S, c) ==
    [S EXCEPT !.calls[c].st = "blocked", !.ops = @ \cup {"logger.warn:duplicate"}]

\* WeappBackendApi.$sendHttpRequest, up to the point where it returns its promise
sendHttpRequest(S, c, requestOptions0) ==
    LET requestOptions == IF "url" \in DOMAIN requestOptions0
                          THEN [_url |-> requestOptions0.url] @@ requestOptions0
                          ELSE requestOptions0
        S0 == [S EXCEPT !.calls[c].desc = requestOptions,
                        !.ops = @ \cup hashWarnings(requestOptions)]
        \* beforeSend
        cachedRequestResult == storageGet(S.cache, _getRequestInfoHash(requestOptions))
    IN IF _isSending(S.sending, requestOptions) /\ requestOptions._interceptDuplicateRequest
       THEN _interceptDuplicateRequest(S0, c)
       ELSE IF cachedRequestResult # NoResult
       THEN \* Promise.resolve(cachedRequestResult).then(...)
            [S0 EXCEPT !.calls[c].st = "hit",
                       !.ops = @ \cup {"from cache"},
                       !.micro = Append(@, [t |-> "settle", c |-> c, requestResult |-> cachedRequestResult])]
       ELSE LET S1 == _showLoading(S0, requestOptions)
            IN [S1 EXCEPT !.ops = @ \cup (IF isUploadFile(requestOptions)
                                          THEN {"wx.uploadFile"} ELSE {"wx.request"}),
                          \* requestOptions.success = ..., requestOptions.fail = ...
                          !.calls[c].desc = [success |-> "fn", fail |-> "fn"] @@ requestOptions,
                          !.calls[c].sent = @ + 1,
                          !.calls[c].st = "inflight",
                          !.sending = _addToSending(S1.sending, c, requestOptions)]

\* (variant) the loaded entries are not merged
addApiConfig_skip(cfg, data) == cfg

\* BackendApi.addApiConfig with one argument: extend(this.apiConfig, _apiConfig)
addApiConfig(cfg, data) == ConfigOf(data) @@ cfg

\* (variant) the namespace is not put in front of the names
addApiConfigNs_flat(cfg, namespace, _apiConfig0) == _apiConfig0 @@ cfg

\* BackendApi.addApiConfig(namespace, apiConfig)
addApiConfigNs(cfg, namespace, _apiConfig0) ==
    LET _apiConfig ==
            IF namespace # <<>>
            THEN [key \in {namespace \o <<".">> \o name : name \in DOMAIN _apiConfig0} |->
                     _apiConfig0[SubSeq(key, Len(namespace) + 2, Len(key))]]
            ELSE _apiConfig0
    IN _apiConfig @@ cfg

\* ------------------------------------------------------------------ actions
\* a load request is outstanding from loadApiConfig until its request settles
Outstanding(cs) == {d \in 1..Len(cs) : cs[d].kind = "load" /\ cs[d].st \in {"inflight", "hit"}}

\* the record of a call: its arguments, its descriptor once dispatched, the
\* branch it is in (st), the number of transport invocations made for it, the
\* promise returned to the caller, the promise of $sendHttpRequest (inner) and
\* how the caller's promise follows it (adopt: "direct" when it is that promise
\* or a reaction chained on it, "waiting" / "subscribed" for a call released
\* from the queue), the loads outstanding when it was issued, and the number
\* of failure logs written and failure tips shown for it
NewCall(kind, name, options, cs) ==
    [kind |-> kind, name |-> name, options |-> options, desc |-> NoDesc, st |-> "new",
     sent |-> 0, promise |-> "pending", inner |-> "pending", adopt |-> "direct",
     during |-> Outstanding(cs), reports |-> 0, tips |-> 0]

NoEvent(c) == [c |-> c, ops |-> {}, data |-> "undefined"]

Commit(S, c) ==
    /\ calls' = S.calls
    /\ sending' = S.sending
    /\ cache' = S.cache
    /\ micro' = S.micro
    /\ ev' = [c |-> c, ops |-> S.ops, data |-> S.data]

Init ==
    /\ apiConfig = InitApiConfig
    /\ sending = EmptyMap
    /\ loading = FALSE
    /\ stalled = <<>>
    /\ cache = EmptyMap
    /\ calls = <<>>
    /\ micro = <<>>
    /\ heap = <<>>
    /\ ev = NoEvent(0)

\* the test `if (this.loading)` of sendRequest
stalls(ld) == ld

\* (variant) the Deferreds are resolved last-queued first
resolveStalled_lifo(stl, data) ==
    [i \in 1..Len(stl) |-> [t |-> "release", c |-> stl[Len(stl) + 1 - i], by |-> data]]

\* (variant) the Deferred queued first is passed over
resolveStalled_dropOldest(stl, data) ==
    [i \in 1..(Len(stl) - 1) |-> [t |-> "release", c |-> stl[i + 1], by |-> data]]

\* the `this.stalled.forEach(function(dfd) { dfd.resolve(); })` of loadApiConfig:
\* the reactions of the Deferreds, in the order they are scheduled (each noting
\* the data of the load that released it)
resolveStalled(stl, data) == [i \in 1..Len(stl) |-> [t |-> "release", c |-> stl[i], by |-> data]]

\* BackendApi.sendRequest(name, options), as one of at most `max` calls
SendRequestOf(max, name, options) ==
    /\ Len(calls) < max
    /\ LET c == Len(calls) + 1
           cs == Append(calls, NewCall("send", name, options, calls))
           S == [St(cs, sending, cache, micro) EXCEPT !.ops = {"sendRequest"}]
       IN IF stalls(loading)
          THEN /\ calls' = [cs EXCEPT ![c].st = "stalled"]
               /\ stalled' = Append(stalled, c)
               /\ ev' = [NoEvent(c) EXCEPT !.ops = {"sendRequest"}]
               /\ UNCHANGED <<heap, apiConfig, sending, loading, cache, micro>>
          ELSE /\ Commit(sendHttpRequest(S, c, _getRequestOptions(apiConfig, name, options, <<>>)), c)
               /\ UNCHANGED <<heap, apiConfig, loading, stalled>>

SendRequest(name, options) == SendRequestOf(MaxCalls, name, options)

\* BackendApi.loadApiConfig(requestOptions), as one of at most `max` calls
LoadApiConfigOf(max, options) ==
    /\ Len(calls) < max
    /\ LET c == Len(calls) + 1
           cs == Append(calls, NewCall("load", <<>>, options, calls))
           S == [St(cs, sending, cache, micro) EXCEPT !.ops = {"loadApiConfig"}]
       IN /\ loading' = TRUE
          /\ Commit(sendHttpRequest(S, c, [url |-> ConfigUrl] @@ options), c)
          /\ UNCHANGED <<heap, apiConfig, stalled>>

LoadApiConfig(options) == LoadApiConfigOf(MaxCalls, options)

\* the transport calls `success` or `fail` of an in-flight call; the reaction of
\* $sendHttpRequest's promise runs right after it
TransportComplete(c, requestResult) ==
    /\ micro = <<>>
    /\ c \in 1..Len(calls)
    /\ calls[c].st = "inflight"
    /\ LET S == St(calls, sending, cache, micro)
       IN IF isHttpRequestSuccess(requestResult)
          THEN Commit(onFulfilled(S, c, requestResult), c)
          ELSE Commit(onRejected(S, c, requestResult), c)
    /\ UNCHANGED <<heap, apiConfig, loading, stalled>>

\* the reaction of a cache hit: Promise.resolve(cachedRequestResult).then(...)
RunSettle ==
    /\ micro # <<>>
    /\ Head(micro).t = "settle"
    /\ Commit(onFulfilled(St(calls, sending, cache, Tail(micro)),
                          Head(micro).c, Head(micro).requestResult), Head(micro).c)
    /\ UNCHANGED <<heap, apiConfig, loading, stalled>>

\* the reactions loadApiConfig chains on $sendHttpRequest's promise
RunLoaded ==
    /\ micro # <<>>
    /\ Head(micro).t = "loaded"
    /\ LET c == Head(micro).c
       IN IF calls[c].st = "resolved"
          THEN /\ apiConfig' = addApiConfig(apiConfig, Head(micro).data)
               /\ micro' = Tail(micro) \o resolveStalled(stalled, Head(micro).data)
               /\ stalled' = <<>>
               /\ loading' = FALSE
               /\ calls' = [calls EXCEPT ![c].promise = "fulfilled"]
               /\ ev' = [NoEvent(c) EXCEPT !.ops = {"loadApiConfig.onFulfilled"}]
               /\ UNCHANGED <<heap, sending, cache>>
          ELSE /\ loading' = FALSE
               /\ micro' = Tail(micro)
               /\ calls' = [calls EXCEPT ![c].promise = "fulfilled"]
               /\ ev' = [NoEvent(c) EXCEPT !.ops = {"loadApiConfig.onRejected"}]
               /\ UNCHANGED <<heap, apiConfig, stalled, sending, cache>>

\* the reaction of a released Deferred: the `dfd.then(() => ...)` of sendRequest.
\* It returns the promise of $sendHttpRequest, a thenable, so the promise the
\* caller holds schedules the job that subscribes to it
RunRelease ==
    /\ micro # <<>>
    /\ Head(micro).t = "release"
    /\ LET c == Head(micro).c
           S == sendHttpRequest([St(calls, sending, cache, Tail(micro))
                                    EXCEPT !.ops = {"dfd.then"}, !.data = Head(micro).by], c,
                                _getRequestOptions(apiConfig, calls[c].name, calls[c].options, <<>>))
       IN Commit([S EXCEPT !.calls[c].adopt = "waiting",
                           !.micro = Append(@, [t |-> "thenable", c |-> c, target |-> "outer"])], c)
    /\ UNCHANGED <<heap, apiConfig, loading, stalled>>

\* NewPromiseResolveThenableJob: a promise resolved with a thenable calls the
\* thenable's `then` in a job of its own.  The rejected promise of
\* commonFailStatusHandler (target "inner") has settled, so its reaction is
\* scheduled at once; the promise of $sendHttpRequest (target "outer") has its
\* reaction scheduled at once if it has settled, when it settles otherwise
RunResolveThenable ==
    /\ micro # <<>>
    /\ Head(micro).t = "thenable"
    /\ LET c == Head(micro).c
           target == Head(micro).target
       IN IF target = "outer" /\ calls[c].inner = "pending"
          THEN /\ calls' = [calls EXCEPT ![c].adopt = "subscribed"]
               /\ micro' = Tail(micro)
          ELSE /\ calls' = [calls EXCEPT ![c].adopt = IF target = "outer" THEN "subscribed" ELSE @]
               /\ micro' = Append(Tail(micro), [t |-> "adopt", c |-> c, target |-> target])
    /\ ev' = [NoEvent(Head(micro).c) EXCEPT !.ops = {"PromiseResolveThenableJob"}]
    /\ UNCHANGED <<heap, apiConfig, sending, loading, stalled, cache>>

\* the reaction by which a promise takes the state of the thenable it was
\* resolved with: the promise of $sendHttpRequest is rejected (target "inner"),
\* the promise of a released call takes the state of $sendHttpRequest's
RunAdopt ==
    /\ micro # <<>>
    /\ Head(micro).t = "adopt"
    /\ LET c == Head(micro).c
           S == [St(calls, sending, cache, Tail(micro)) EXCEPT !.ops = {"PromiseReactionJob"}]
       IN IF Head(micro).target = "inner"
          THEN Commit(settleInner(S, c, "rejected"), c)
          ELSE Commit([S EXCEPT !.calls[c].promise = calls[c].inner], c)
    /\ UNCHANGED <<heap, apiConfig, loading, stalled>>

\* one unit of time passes: every entry of the store has one unit less to
\* live, and the store no longer yields the entries that have expired
Tick ==
    /\ DOMAIN cache # {}
    /\ cache' = [key \in {k \in DOMAIN cache : cache[k].ttl > 1} |->
                    [cache[key] EXCEPT !.ttl = @ - 1]]
    /\ ev' = NoEvent(0)
    /\ UNCHANGED <<heap, apiConfig, sending, loading, stalled, calls, micro>>

Next ==
    \/ \E name \in Names, options \in OptionSets : SendRequest(name, options)
    \/ \E options \in LoadOptionSets : LoadApiConfig(options)
    \/ \E c \in 1..Len(calls) :
          \E requestResult \in TransportResults(IF calls[c].kind = "load" THEN "cfgA" ELSE "d1") :
             TransportComplete(c, requestResult)
    \/ RunSettle
    \/ RunLoaded
    \/ RunRelease
    \/ RunResolveThenable
    \/ RunAdopt
    \/ Tick

Spec == Init /\ [][Next]_vars

\* ------------------------------------------------------------------ claims
Ids == 1..Len(calls)
Settled(c) == calls[c].st \in {"resolved", "rejected"}
InFlight(c) == calls[c].st = "inflight"
\* the call of the last step was dispatched in it ($sendHttpRequest ran for it)
Dispatched(c) ==
    /\ ev.c = c
    /\ ev.ops \cap {"sendRequest", "loadApiConfig", "dfd.then"} # {}
    /\ calls[c].st # "stalled"
\* requestOptions._url = requestOptions.url, as $sendHttpRequest keeps it
withUrl(requestOptions) ==
    IF "url" \in DOMAIN requestOptions THEN [_url |-> requestOptions.url] @@ requestOptions
    ELSE requestOptions
\* the data a call resolves with, given the requestResult it resolves with
dataOf(requestResult) ==
    IF "data" \in DOMAIN requestResult.data THEN requestResult.data.data ELSE "undefined"

\* C1: a call that enables _interceptDuplicateRequest and is dispatched while a
\* transmitted call of the same fingerprint has not yet settled does not invoke
\* the transport.
C1_RegistryExclusivity ==
    \A c \in Ids :
        (Dispatched(c) /\ calls[c].desc._interceptDuplicateRequest)
            => \A d \in Ids \ {c} :
                  (InFlight(d) /\ _getRequestInfoHash(calls[d].desc) = _getRequestInfoHash(calls[c].desc))
                      => ("wx.request" \notin ev.ops /\ calls[c].sent = 0)

\* C2: when the loadApiConfig request has ended in failure and its reaction has
\* run, every call queued while it was loading has been released (none is left
\* in the stalled queue).
C2_FailureReleasesQueued ==
    "loadApiConfig.onRejected" \in ev.ops => stalled = <<>>

\* C3: a sendRequest call issued while a loadApiConfig request was outstanding
\* is still queued, with no transport invocation and no registry entry, for as
\* long as that load has not settled.
C3_QueuedWhileLoadOutstanding ==
    \A c \in Ids :
        \A d \in calls[c].during :
            (calls[c].kind = "send" /\ d \in Outstanding(calls))
                => /\ calls[c].st = "stalled"
                   /\ calls[c].sent = 0
                   /\ \A key \in DOMAIN sending : sending[key] # c

\* a sendRequest call issued while a load was outstanding has been transmitted
\* and that load is still in flight
C3_TransmittedWhileLoadOutstanding ==
    \E c \in Ids :
        \E d \in calls[c].during :
            /\ calls[c].kind = "send"
            /\ InFlight(d)
            /\ calls[c].sent = 1 /\ "wx.request" \in ev.ops /\ ev.c = c

\* C4: a queued call is resolved when it is released: its descriptor is the one
\* _getRequestOptions builds from the endpoint configuration at that moment
\* (with the callbacks $sendHttpRequest sets on it when it is transmitted),
\* which contains every entry of the load result that released it.
C4_ResolvedAtRelease ==
    \A c \in Ids :
        (ev.c = c /\ "dfd.then" \in ev.ops)
            => /\ LET built == withUrl(_getRequestOptions(apiConfig, calls[c].name,
                                                          calls[c].options, <<>>))
                  IN /\ DOMAIN built \subseteq DOMAIN calls[c].desc
                     /\ DOMAIN calls[c].desc \ DOMAIN built \subseteq {"success", "fail"}
                     /\ [k \in DOMAIN built |-> calls[c].desc[k]] = built
               /\ \A n \in DOMAIN ConfigOf(ev.data) :
                      n \in DOMAIN apiConfig /\ apiConfig[n] = ConfigOf(ev.data)[n]

\* a released call to an endpoint that only the loaded configuration defines
C4_Witness ==
    \E c \in Ids :
        /\ ev.c = c /\ "dfd.then" \in ev.ops
        /\ ev.data \in ConfigTokens
        /\ calls[c].name = <<"getUser">>
        /\ <<"getUser">> \notin DOMAIN InitApiConfig
        /\ calls[c].desc.url = <<"u2">>

\* C5: queued calls are released in the order they were issued: when a queued
\* call runs its resolve and pre-send gate, no call issued before it is still
\* waiting in the queue.
C5_FifoRelease ==
    \A c \in Ids :
        (ev.c = c /\ "dfd.then" \in ev.ops)
            => /\ \A b \in 1..(c - 1) : calls[b].st # "stalled"
               /\ \A i \in 1..Len(micro) : micro[i].t = "release" => micro[i].c > c

\* the first of two queued calls has run, the second one's reaction is next
C5_Witness ==
    /\ "dfd.then" \in ev.ops
    /\ micro # <<>>
    /\ Head(micro).t = "release"
    /\ Head(micro).c > ev.c

\* C6: a call dispatched while a live cache entry exists for its fingerprint,
\* and not blocked as a duplicate, does not invoke the transport and resolves.
C6_CacheShortCircuit ==
    \A c \in Ids :
        /\ (Dispatched(c) /\ calls[c].st # "blocked"
              /\ storageHas(cache, _getRequestInfoHash(calls[c].desc)))
              => (calls[c].st = "hit" /\ "wx.request" \notin ev.ops)
        /\ (ev.c = c /\ "onFulfilled" \in ev.ops /\ calls[c].sent = 0)
              => calls[c].st = "resolved"

\* C7: a call served from the cache resolves with the data the call that wrote
\* the entry resolved with.
C7_CachedSameData ==
    [][ \A c \in Ids :
          (calls[c].st = "hit" /\ calls'[c].st # "hit")
              => /\ calls'[c].st = "resolved"
                 /\ ev'.data = dataOf(Head(micro).requestResult)
      ]_vars

\* C8: a call blocked as a duplicate gets a promise that is pending and stays
\* pending: the call never leaves the blocked branch, whatever settles later.
C8_BlockedStaysPending ==
    /\ [](\A c \in Ids :
            (ev.c = c /\ "logger.warn:duplicate" \in ev.ops)
                => (calls[c].st = "blocked" /\ calls[c].promise = "pending"))
    /\ [][ \A c \in Ids :
             calls[c].st = "blocked"
                 => (calls'[c].st = "blocked" /\ calls'[c].promise = "pending"
                     /\ calls'[c].sent = 0)
         ]_vars

\* a call is blocked and every other call, the original one included, has settled
C8_Witness ==
    \E c \in Ids :
        /\ calls[c].st = "blocked"
        /\ calls[c].promise = "pending"
        /\ Len(calls) > 1
        /\ \A d \in Ids \ {c} : Settled(d)

\* C9: _hideLoading is never invoked while a transmitted call with
\* `_showLoading !== false` is still outstanding.
C9_HideOnlyAfterAllSettled ==
    "wx.hideLoading" \in ev.ops
        => \A c \in Ids : ~(InFlight(c) /\ calls[c].desc._showLoading # FALSE)

\* C10: when a call with `_showLoading !== false` settles and no other such call
\* is outstanding, _hideLoading is invoked, whatever suppressed calls are still
\* in the registry.
C10_SuppressedDoesNotHoldIndicator ==
    ("afterSend:_showLoading" \in ev.ops
        /\ \A c \in Ids : ~(InFlight(c) /\ calls[c].desc._showLoading # FALSE))
        => "wx.hideLoading" \in ev.ops

\* the last spinner call has settled and hidden the indicator while a
\* suppressed call is in flight and in the registry
C10_Witness ==
    /\ "afterSend:_showLoading" \in ev.ops
    /\ "wx.hideLoading" \in ev.ops
    /\ calls[ev.c].sent = 1
    /\ \E d \in Ids :
          /\ InFlight(d)
          /\ calls[d].desc._showLoading = FALSE
          /\ _isSending(sending, calls[d].desc)
          /\ sending[_getRequestInfoHash(calls[d].desc)] = d

\* C11: every call that ended in failure has been reported exactly once (one
\* failure log, at most one tip) and, once its reactions have run, the promise
\* returned to the caller (by sendRequest or loadApiConfig) is rejected; it is
\* never fulfilled.
C11_FailureReportedAndRejected ==
    \A c \in Ids :
        calls[c].st = "rejected"
            => /\ calls[c].reports = 1
               /\ calls[c].tips <= 1
               /\ calls[c].promise # "fulfilled"
               /\ (\A i \in 1..Len(micro) : micro[i].c # c) => calls[c].promise = "rejected"

\* ------------------------------------------ the settle handlers on one call
\* One call is issued and its transport completes with any of the results
\* below; the step records the descriptor, the transport's result and the
\* result object the promise is settled with.
SettleOptionSets ==
    OptionSets \cup { [_showFailTip |-> FALSE] @@ Options(FALSE, TRUE, NoTtl, "default"),
                      [_type |-> "uploadFile"] @@ Options(FALSE, TRUE, NoTtl, "default") }

\* the results of TransportResults, and: a success without a body (HTTP 204),
\* a 304, a 404 carrying a well-formed body, a failure whose errMsg is the bare
\* prefix, one whose errMsg does not contain the prefix, one without errMsg
SettleResults(d) ==
    TransportResults(d)
      \cup { [statusCode |-> 204],
             [statusCode |-> 304, data |-> [status |-> 0, data |-> d, statusInfo |-> [message |-> "ok"]]],
             [statusCode |-> 404, data |-> [status |-> 0, data |-> d, statusInfo |-> [message |-> "ok"]]],
             [errMsg |-> <<"request:fail ">>],
             [errMsg |-> <<"u", "ploadFile:fail">>],
             [k \in {} |-> 0],
             \* what wx.uploadFile delivers: the body as a string
             [statusCode |-> 200,
              data |-> [jsonText |-> [status |-> 0, data |-> d, statusInfo |-> [message |-> "ok"]]]],
             [statusCode |-> 200,
              data |-> [jsonText |-> [status |-> 1, statusInfo |-> [message |-> "no"]]]],
             [statusCode |-> 200, data |-> [text |-> <<"o", "k">>]],
             \* a body that is null, and an errMsg with the prefix inside it
             [statusCode |-> 200, data |-> Null],
             [errMsg |-> <<"u", "request:fail ", "x">>] }

IssueOne(name, options) ==
    /\ calls = <<>>
    /\ SendRequest(name, options)

\* `success` / `fail` of the call and the reaction of $sendHttpRequest's promise.
\* The adapting normalizer reads the fields of the body, so it is used on
\* responses that have one.
SettleOne(requestResult) ==
    /\ Len(calls) = 1
    /\ calls[1].st = "inflight"
    /\ micro = <<>>
    /\ (isHttpRequestSuccess(requestResult) /\ calls[1].desc._normalizeRequestResult # "default")
          => ("data" \in DOMAIN requestResult /\ ~falsy(requestResult.data))
    /\ LET S == St(calls, sending, cache, micro)
           R == IF isHttpRequestSuccess(requestResult)
                THEN onFulfilled(S, 1, requestResult)
                ELSE onRejected(S, 1, requestResult)
       IN /\ calls' = R.calls
          /\ sending' = R.sending
          /\ cache' = R.cache
          /\ micro' = R.micro
          /\ ev' = [c |-> 1, ops |-> R.ops, data |-> R.data, result |-> R.result,
                    requestResult |-> requestResult, requestOptions |-> calls[1].desc]
    /\ UNCHANGED <<heap, apiConfig, loading, stalled>>

NextSettle ==
    \/ \E name \in Names, options \in SettleOptionSets : IssueOne(name, options)
    \/ \E requestResult \in SettleResults("d1") : SettleOne(requestResult)
    \/ RunResolveThenable
    \/ RunAdopt

SpecSettle == Init /\ [][NextSettle]_vars

\* the last step settled the call (SpecSettle)
SettledStep == "requestResult" \in DOMAIN ev
\* the envelope of the result the promise was settled with
Envelope == getData(ev.result)
\* the error category of the result the promise was rejected with
Category ==
    IF calls[1].st = "rejected" /\ "_errorType" \in DOMAIN Envelope
    THEN Envelope._errorType ELSE "none"
\* what the normalizer in use returns for the body of the response
Normalized ==
    LET payload == getData(ev.requestResult)
        body == IF isUploadFile(ev.requestOptions) THEN JSONparse(payload) ELSE payload
    IN IF ev.requestOptions._normalizeRequestResult = "default" THEN body
       ELSE adaptRequestResult(body)
\* `!status || status == 0` for the status of an envelope (an envelope that
\* is undefined has no status)
StatusFalsyOrZero(env) == "status" \notin DOMAIN env \/ env.status = 0
\* errMsg with the prefix `request:fail ` removed
Remaining(errMsg) ==
    LET at == {i \in 1..Len(errMsg) : errMsg[i] = "request:fail "}
        first == CHOOSE i \in at : \A j \in at : i <= j
    IN IF at = {} THEN errMsg
       ELSE [k \in 1..(Len(errMsg) - 1) |-> IF k < first THEN errMsg[k] ELSE errMsg[k + 1]]

\* C12 (as claimed): a call whose transport completed with an HTTP-success
\* status settles as success exactly when the status of the normalized envelope
\* is falsy or zero, and as a failure of category B otherwise.
C12_SuccessIffStatusFalsyOrZero ==
    (SettledStep /\ isHttpRequestSuccess(ev.requestResult))
        => IF StatusFalsyOrZero(Normalized)
           THEN calls[1].st = "resolved"
           ELSE calls[1].st = "rejected" /\ Category = "B"

\* C12 (amended): such a call settles as success exactly when the normalized
\* envelope is truthy (the response has a body) and its status is falsy or
\* zero; otherwise, a response without body included, it is a failure of
\* category B.
C12_SuccessIffBodyAndStatus ==
    (SettledStep /\ isHttpRequestSuccess(ev.requestResult))
        => IF ~falsy(Normalized) /\ StatusFalsyOrZero(Normalized)
           THEN calls[1].st = "resolved" /\ Category = "none"
           ELSE calls[1].st = "rejected" /\ Category = "B"

\* an HTTP 204 without body has been settled as a business failure
C12_Witness ==
    /\ SettledStep
    /\ ev.requestResult = [statusCode |-> 204]
    /\ calls[1].st = "rejected"
    /\ Category = "B"

\* C13: a completion whose statusCode is defined and neither in 200..299 nor
\* 304 settles as a failure of category H whose envelope status is that code; a
\* completion with statusCode in 200..299 or 304 never takes the H path.
C13_HttpFailure ==
    (SettledStep /\ "statusCode" \in DOMAIN ev.requestResult)
        => LET code == ev.requestResult.statusCode
           IN IF (code >= 200 /\ code =< 299) \/ code = 304
              THEN Category # "H"
              ELSE calls[1].st = "rejected" /\ Category = "H" /\ Envelope.status = code

\* a 404 has been settled as H with status 404, whatever body it carried
C13_Witness ==
    /\ SettledStep
    /\ "statusCode" \in DOMAIN ev.requestResult
    /\ ev.requestResult.statusCode = 404
    /\ Category = "H"
    /\ Envelope.status = 404

\* C14: a transport failure without statusCode has category A; when the errMsg
\* without its prefix `request:fail ` is non-empty the status is the character
\* code of its first character and the message is that text (`request:fail
\* timeout`: 116 and `timeout`), otherwise the status is REQUEST_API_FAIL_STATUS
\* and the message the default one.
C14_ApiFailure ==
    (SettledStep /\ "statusCode" \notin DOMAIN ev.requestResult)
        => LET errMsg == IF "errMsg" \in DOMAIN ev.requestResult
                         THEN ev.requestResult.errMsg ELSE <<>>
               rest == Remaining(errMsg)
           IN /\ calls[1].st = "rejected"
              /\ Category = "A"
              /\ IF rest # <<>>
                 THEN /\ Envelope.status = charCodeAt0(rest[1])
                      /\ Envelope.statusInfo.message = rest
                 ELSE /\ Envelope.status = REQUEST_API_FAIL_STATUS
                      /\ Envelope.statusInfo.message = <<"REQUEST_API_FAIL_MESSAGE">>
              /\ errMsg = <<"request:fail ", "t", "imeout">>
                    => (Envelope.status = 116 /\ Envelope.statusInfo.message = <<"t", "imeout">>)

\* `request:fail timeout` has been settled with status 116 and message `timeout`
C14_Witness ==
    /\ SettledStep
    /\ ev.requestResult = [errMsg |-> <<"request:fail ", "t", "imeout">>]
    /\ Category = "A"
    /\ Envelope.status = 116
    /\ Envelope.statusInfo.message = <<"t", "imeout">>

\* C15 (as claimed): for every call that settles as success or as business
\* failure, the data of the result object is an envelope that has a status and
\* a statusInfo (and a data, possibly undefined), whatever the body was.
C15_EnvelopeShape ==
    (SettledStep /\ isHttpRequestSuccess(ev.requestResult))
        => /\ Envelope # Undefined
           /\ {"status", "statusInfo"} \subseteq DOMAIN Envelope

\* C15 (amended): for such a call the data of the result object is what the
\* normalizer in use returned for the body (the body itself with the default
\* normalizer), with `_errorType: 'B'` added on a business failure and `{}` in
\* place of an empty body; so it has the shape of the envelope exactly when the
\* normalizer's result has it.
C15_EnvelopeIsNormalizerResult ==
    (SettledStep /\ isHttpRequestSuccess(ev.requestResult))
        => /\ calls[1].st = "resolved" => Envelope = Normalized
           /\ calls[1].st = "rejected"
                => Envelope = [_errorType |-> "B"] @@
                                 (IF falsy(Normalized) THEN [k \in {} |-> 0] ELSE Normalized)
           /\ (~falsy(Normalized) /\ {"status", "statusInfo"} \subseteq DOMAIN Normalized)
                <=> {"status", "statusInfo"} \subseteq DOMAIN Envelope

\* a body {success, result} went through the default normalizer: the call is
\* resolved and the result's data is that body, without status and statusInfo
C15_Witness ==
    /\ SettledStep
    /\ ev.requestOptions._normalizeRequestResult = "default"
    /\ ev.requestResult = [statusCode |-> 200, data |-> [success |-> TRUE, result |-> "d1"]]
    /\ calls[1].st = "resolved"
    /\ Envelope = [success |-> TRUE, result |-> "d1"]

\* C16: for every transport-level failure (A or H) the data of the result is a
\* synthesized envelope {status, statusInfo{message, detail}} (its data is
\* undefined) marked A or H; the body of the response is not passed on in it.
C16_SynthesizedEnvelope ==
    (SettledStep /\ ~isHttpRequestSuccess(ev.requestResult))
        => /\ calls[1].st = "rejected"
           /\ Category \in {"A", "H"}
           /\ DOMAIN Envelope = {"status", "_errorType", "statusInfo"}
           /\ DOMAIN Envelope.statusInfo = {"message", "detail"}
           /\ Envelope # getData(ev.requestResult)

\* an HTTP failure that carried a well-formed body has been settled with the
\* synthesized envelope
C16_Witness ==
    /\ SettledStep
    /\ ev.requestResult =
          [statusCode |-> 404,
           data |-> [status |-> 0, data |-> "d1", statusInfo |-> [message |-> "ok"]]]
    /\ Category = "H"
    /\ "data" \notin DOMAIN Envelope
    /\ Envelope.statusInfo.message = <<"REQUEST_HTTP_FAIL_MESSAGE">>

\* C17: the cache is written only by the fulfilment reaction of a call that
\* carries a non-negative `_cacheTtl` and settles as success, and what is written
\* is a result with an HTTP-success status and a business-success envelope,
\* under the fingerprint of that call; no other step (a failure A, H or B, a
\* call without `_cacheTtl`) creates or changes an entry. (Entries only age and
\* expire otherwise.)
C17_CacheWrittenOnlyOnSuccess ==
    [][ (cache' # cache /\ ev'.c # 0)
          => LET c == ev'.c
             IN /\ "onFulfilled" \in ev'.ops
                /\ calls'[c].st = "resolved"
                /\ calls'[c].reports = 0
                /\ calls[c].desc._cacheTtl >= 0
                /\ \A key \in DOMAIN cache : key \in DOMAIN cache' /\ cache'[key] = cache[key]
                /\ \A key \in DOMAIN cache' \ DOMAIN cache :
                      /\ key = _getRequestInfoHash(calls[c].desc)
                      /\ isHttpRequestSuccess(cache'[key].value)
                      /\ StatusFalsyOrZero(cache'[key].value.data)
      ]_vars

\* an earlier call has failed and left the cache empty; the transmitted call of
\* the last step has settled as success and its entry is the only one
C17_Witness ==
    /\ ev.c # 0
    /\ "onFulfilled" \in ev.ops
    /\ calls[ev.c].st = "resolved"
    /\ calls[ev.c].sent = 1
    /\ Cardinality(DOMAIN cache) = 1
    /\ \A key \in DOMAIN cache : StatusFalsyOrZero(cache[key].value.data)
    /\ \E d \in Ids : calls[d].st = "rejected" /\ d < ev.c

\* --------------------------------------------------- resolving descriptors
\* Endpoints are configured with addApiConfig(namespace, {name: config}) and
\* names are resolved with _getRequestOptions(name, options, namespace); the
\* step records its arguments and, for a resolution, the descriptor.
Namespaces == {<<>>, <<"user">>, <<"v1", "/", "user">>}
EndpointNames == {<<"getUser">>, <<"getList">>}
EndpointConfigs ==
    { [method |-> "GET", url |-> <<"https://x/user">>],
      [method |-> "PUT", url |-> <<"u3">>, header |-> [contentType |-> "json", accept |-> "a1"],
       list |-> <<"a", "b">>] }
ResolveNames ==
    { <<>>, <<"getList">>, <<"getUser">>, <<"getUser", "/", "42">>,
      <<"getUser", "/", "42", "/", "x">>,
      <<"user", ".", "getUser">>, <<"user", ".", "getUser", "/", "42">> }
ResolveOptionSets ==
    { [k \in {} |-> 0],
      [method |-> "POST", dataType |-> "text"],
      [header |-> [token |-> "t1", accept |-> "a2"]],
      [list |-> <<"c">>],
      [url |-> <<"other">>] }

AddApiConfig(namespace, name, config) ==
    /\ apiConfig' = addApiConfigNs(apiConfig, namespace, (name :> config))
    /\ ev' = [c |-> 0, ops |-> {"addApiConfig"}, namespace |-> namespace, name |-> name,
              config |-> config]
    /\ UNCHANGED <<heap, sending, loading, stalled, cache, calls, micro>>

Resolve(name, options, namespace) ==
    /\ ev' = [c |-> 0, ops |-> {"_getRequestOptions"}, namespace |-> namespace, name |-> name,
              options |-> options,
              requestOptions |-> _getRequestOptions(apiConfig, name, options, namespace)]
    /\ UNCHANGED <<heap, apiConfig, sending, loading, stalled, cache, calls, micro>>

NextResolve ==
    \/ \E namespace \in Namespaces, name \in EndpointNames, config \in EndpointConfigs :
          AddApiConfig(namespace, name, config)
    \/ \E name \in ResolveNames, options \in ResolveOptionSets, namespace \in Namespaces :
          Resolve(name, options, namespace)

SpecResolve == Init /\ [][NextResolve]_vars

\* the last step resolved a name / configured an endpoint (SpecResolve)
ResolvedStep == "_getRequestOptions" \in ev.ops
ConfiguredStep == "addApiConfig" \in ev.ops
\* the part of a name before its first `/`, and the rest from that `/` on
FirstSlash(name) == CHOOSE i \in 1..(Len(name) + 1) :
                        /\ (i <= Len(name) => name[i] = "/")
                        /\ \A j \in 1..(i - 1) : name[j] # "/"
KeyOf(name) == SubSeq(name, 1, FirstSlash(name) - 1)
SuffixOf(name) == SubSeq(name, FirstSlash(name), Len(name))
\* the key under which a name is looked up
LookupKey(name, namespace) ==
    IF namespace # <<>> THEN namespace \o <<".">> \o KeyOf(name) ELSE KeyOf(name)

\* C18: a name `key/suffix` is split at its first `/`; `key` (with `namespace.`
\* in front when a namespace is given) is looked up, and when it is configured
\* the url of the descriptor is the configured url followed by `/suffix` (unless
\* the per-call options set a url, which wins as for any key): `getUser/42`
\* with `getUser` configured as `https://x/user` gives `https://x/user/42`.
C18_PathSuffix ==
    (ResolvedStep /\ ev.name # <<>> /\ LookupKey(ev.name, ev.namespace) \in DOMAIN apiConfig)
        => LET configured == apiConfig[LookupKey(ev.name, ev.namespace)]
           IN /\ "url" \in DOMAIN ev.requestOptions
              /\ ev.requestOptions.url =
                    IF "url" \in DOMAIN ev.options THEN ev.options.url
                    ELSE configured.url \o SuffixOf(ev.name)
              /\ (/\ ev.name = <<"getUser", "/", "42">>
                  /\ configured.url = <<"https://x/user">>
                  /\ "url" \notin DOMAIN ev.options)
                    => ev.requestOptions.url = <<"https://x/user", "/", "42">>

\* `getUser/42/x` has been resolved in the namespace `user`: the url is the
\* configured one followed by `/42/x`
C18_Witness ==
    /\ ResolvedStep
    /\ ev.name = <<"getUser", "/", "42", "/", "x">>
    /\ ev.namespace = <<"user">>
    /\ <<"user", ".", "getUser">> \in DOMAIN apiConfig
    /\ "url" \in DOMAIN ev.requestOptions
    /\ ev.requestOptions.url = <<"https://x/user", "/", "42", "/", "x">>

\* the three layers of a resolution, lowest precedence first: the defaults, the
\* endpoint configuration found for the name (its url followed by the suffix of
\* the name), the per-call options
ResolveLayers ==
    LET key == LookupKey(ev.name, ev.namespace)
        configured == IF ev.name # <<>> /\ key \in DOMAIN apiConfig
                      THEN [apiConfig[key] EXCEPT !.url = apiConfig[key].url \o SuffixOf(ev.name)]
                      ELSE EmptyMap
    IN <<defaultRequestOptions, configured, ev.options>>
\* the value a key has in the latest of the layers that give it
LatestOf(layers, k) ==
    layers[CHOOSE i \in 1..Len(layers) :
              /\ k \in DOMAIN layers[i]
              /\ \A j \in (i + 1)..Len(layers) : k \notin DOMAIN layers[j]][k]
GivenBy(layers) == UNION {DOMAIN layers[i] : i \in 1..Len(layers)}
\* the nested objects the layers give under a key, in the order of the layers
NestedOf(layers, k) ==
    LET idx == {i \in 1..Len(layers) : k \in DOMAIN layers[i]}
        nth(n) == CHOOSE i \in idx : Cardinality({j \in idx : j < i}) = n - 1
    IN [n \in 1..Cardinality(idx) |-> layers[nth(n)][k]]

\* C19: the descriptor is the deep merge of the defaults, the endpoint
\* configuration and the per-call options, a later layer winning: a nested
\* object is merged key by key, and every other value, an array included, is
\* the one of the latest layer that gives the key.
C19_DeepMerge ==
    ResolvedStep
        => /\ DOMAIN ev.requestOptions = GivenBy(ResolveLayers)
           /\ \A k \in GivenBy(ResolveLayers) :
                 IF k \in ObjectKeys
                 THEN LET nested == NestedOf(ResolveLayers, k)
                      IN /\ DOMAIN ev.requestOptions[k] = GivenBy(nested)
                         /\ \A j \in GivenBy(nested) :
                               ev.requestOptions[k][j] = LatestOf(nested, j)
                 ELSE ev.requestOptions[k] = LatestOf(ResolveLayers, k)

\* the endpoint gives the array <<"a", "b">>, the call the array <<"c">>, and
\* the descriptor holds <<"c", "b">>
C19_ArrayMergedByIndex ==
    /\ ResolvedStep
    /\ "list" \in DOMAIN ev.options /\ ev.options.list = <<"c">>
    /\ ResolveLayers[2] # EmptyMap /\ "list" \in DOMAIN ResolveLayers[2]
    /\ ev.requestOptions.list = <<"c", "b">>

\* ------------------------------------------- the two forms of a namespace
\* Endpoints configured with and without a namespace, under names with and
\* without a `/`, and resolved in both forms.
NamespaceNames == {<<"getUser">>, <<"list", "/", "all">>}
NamespaceResolveNames ==
    { <<"getUser">>, <<"user", ".", "getUser">>, <<".", "getUser">>,
      <<"list", "/", "all">>, <<"user", ".", "list", "/", "all">> }
NamespaceOptionSets == { [k \in {} |-> 0], [url |-> <<"other">>] }

NextNamespace ==
    \/ \E namespace \in Namespaces, name \in NamespaceNames, config \in EndpointConfigs :
          AddApiConfig(namespace, name, config)
    \/ \E name \in NamespaceResolveNames, options \in NamespaceOptionSets,
          namespace \in Namespaces :
          Resolve(name, options, namespace)

SpecNamespace == Init /\ [][NextNamespace]_vars

\* the two ways to name an endpoint configured in a namespace
ByNamespace(options) == _getRequestOptions(apiConfig, ev.name, options, ev.namespace)
ByDottedName(options) ==
    _getRequestOptions(apiConfig, ev.namespace \o <<".">> \o ev.name, options, <<>>)
\* the descriptor takes method and url from the configuration, unless the
\* per-call options give them
UsesConfig(requestOptions, config, options) ==
    /\ "method" \in DOMAIN requestOptions
    /\ requestOptions.method =
          IF "method" \in DOMAIN options THEN options.method ELSE config.method
    /\ "url" \in DOMAIN requestOptions
    /\ requestOptions.url = IF "url" \in DOMAIN options THEN options.url ELSE config.url
\* a name or namespace has a `/` in it
HasSlash(name) == \E i \in 1..Len(name) : name[i] = "/"
\* the key under which addApiConfig(ev.namespace, {ev.name: ev.config}) has
\* stored the entry
StoredKey == IF ev.namespace # <<>> THEN ev.namespace \o <<".">> \o ev.name ELSE ev.name
\* resolving the name does not reach that entry: the descriptor is the one
\* the configuration without the entry gives
MissesEntry(name, options, namespace) ==
    _getRequestOptions(apiConfig, name, options, namespace)
        = _getRequestOptions([key \in DOMAIN apiConfig \ {StoredKey} |-> apiConfig[key]],
                             name, options, namespace)

MaxRewriteCalls == 2      \* number of calls issued in SpecRewrite

RewriteOptionSets ==
    { Options(FALSE, TRUE, NoTtl, "default"),
      Options(TRUE, TRUE, NoTtl, "default"),
      [data |-> [q |-> 1]] @@ Options(FALSE, TRUE, NoTtl, "default"),
      [data |-> [q |-> 2]] @@ Options(TRUE, TRUE, NoTtl, "default"),
      [data |-> [falsy |-> "0"]] @@ Options(FALSE, TRUE, NoTtl, "default"),
      [data |-> [instance |-> "Node", circular |-> TRUE]]
          @@ Options(FALSE, TRUE, NoTtl, "default"),
      [method |-> "GET", url |-> <<"u1">>] @@ Options(FALSE, TRUE, NoTtl, "default"),
      [url |-> <<"u1", LoneSurrogate>>] @@ Options(TRUE, TRUE, NoTtl, "default") }

TransportRewrite(c) ==
    /\ c \in 1..Len(calls)
    /\ calls[c].st = "inflight"
    /\ "url" \in DOMAIN calls[c].desc
    /\ calls[c].desc.url = calls[c].desc._url
    /\ calls' = [calls EXCEPT ![c].desc.url = @ \o <<"?">>]
    /\ ev' = [NoEvent(c) EXCEPT !.ops = {"wx.request:url"}]
    /\ UNCHANGED <<heap, apiConfig, sending, loading, stalled, cache, micro>>

NextRewrite ==
    \/ \E name \in Names, options \in RewriteOptionSets :
          Len(calls) < MaxRewriteCalls /\ SendRequest(name, options)
    \/ \E c \in 1..Len(calls) : TransportRewrite(c)
    \/ \E c \in 1..Len(calls) :
          \E requestResult \in TransportResults("d1") : TransportComplete(c, requestResult)
    \/ RunResolveThenable
    \/ RunAdopt

SpecRewrite == Init /\ [][NextRewrite]_vars

\* two descriptors agree on a field: both lack it, or both have it with one value
SameField(a, b, k) ==
    /\ (k \in DOMAIN a) = (k \in DOMAIN b)
    /\ (k \in DOMAIN a /\ k \in DOMAIN b) => a[k] = b[k]
\* two descriptors agree on method, original url and serialized body
SameRequest(a, b) ==
    /\ SameField(a, b, "method")
    /\ SameField(a, b, "_url")
    /\ serializedData(a) = serializedData(b)
\* the calls whose descriptor is held ($sendHttpRequest ran, not yet settled)
Held == {c \in Ids : calls[c].desc # NoDesc}

\* C21: the fingerprint of a call depends only on method, `_url` and serialized
\* body.  A key of the registry, computed when its call was added, is the
\* fingerprint that every held descriptor equal to that call's in the three has
\* now, whether or not the transport has rewritten the `url` of either.  A call
\* dispatched while a descriptor equal to its own in the three is registered
\* is blocked or takes over that very key; a call that settles takes the key of
\* every registered descriptor equal to its own in the three out of the
\* registry, and no other key; no step changes the fingerprint of a call that
\* stays in flight.
C21_FingerprintStable ==
    /\ [](\A key \in DOMAIN sending :
             /\ InFlight(sending[key])
             /\ \A c \in Held :
                   SameRequest(calls[c].desc, calls[sending[key]].desc)
                       => key = _getRequestInfoHash(calls[c].desc))
    /\ [][ Len(calls') > Len(calls)
             => \A key \in DOMAIN sending :
                   SameRequest(calls'[Len(calls')].desc, calls[sending[key]].desc)
                       => /\ DOMAIN sending' = DOMAIN sending
                          /\ calls'[Len(calls')].st \in {"inflight", "blocked"}
                          /\ calls'[Len(calls')].st = "inflight" => sending'[key] = Len(calls')
         ]_vars
    /\ [][ \A c \in Ids :
             /\ (InFlight(c) /\ calls'[c].st = "inflight")
                   => _getRequestInfoHash(calls'[c].desc) = _getRequestInfoHash(calls[c].desc)
             /\ (InFlight(c) /\ calls'[c].st # "inflight")
                   => /\ DOMAIN sending' \subseteq DOMAIN sending
                      /\ Cardinality(DOMAIN sending \ DOMAIN sending') <= 1
                      /\ \A key \in DOMAIN sending :
                            SameRequest(calls[c].desc, calls[sending[key]].desc)
                                => key \notin DOMAIN sending'
         ]_vars

\* the transport has rewritten the url of a call in flight that carries the
\* body 0; the registry holds the fingerprint of its descriptor, which is also
\* that of another call in flight, without a body, whose url has not been
\* rewritten
C21_Witness ==
    \E c \in Ids, d \in Ids :
        /\ c # d /\ InFlight(c) /\ InFlight(d)
        /\ "wx.request:url" \in ev.ops /\ ev.c = c
        /\ "url" \in DOMAIN calls[c].desc /\ "url" \in DOMAIN calls[d].desc
        /\ calls[c].desc.url # calls[c].desc._url
        /\ calls[d].desc.url = calls[d].desc._url
        /\ "data" \in DOMAIN calls[c].desc /\ calls[c].desc.data = [falsy |-> "0"]
        /\ "data" \notin DOMAIN calls[d].desc
        /\ _getRequestInfoHash(calls[c].desc) = _getRequestInfoHash(calls[d].desc)
        /\ _getRequestInfoHash(calls[c].desc) \in DOMAIN sending

\* C22: no call is retried: the transport is invoked at most once for a call,
\* whatever its outcome, and never again once it has been invoked (a step
\* invokes it for the call it dispatches only).
C22_NoRetry ==
    /\ [](\A c \in Ids :
            /\ calls[c].sent <= 1
            /\ calls[c].st \in {"stalled", "blocked", "hit"} => calls[c].sent = 0)
    /\ [][ \A c \in Ids :
             /\ calls[c].sent = 1 => calls'[c].sent = 1
             /\ calls'[c].sent > calls[c].sent
                   => (calls[c].st = "stalled" /\ "dfd.then" \in ev'.ops /\ ev'.c = c)
         ]_vars

\* a sendRequest call and a loadApiConfig call have both failed, each after
\* one transport invocation, and nothing is left to run
C22_Witness ==
    \E c \in Ids, d \in Ids :
        /\ calls[c].kind = "send" /\ calls[d].kind = "load"
        /\ calls[c].st = "rejected" /\ calls[d].st = "rejected"
        /\ calls[c].sent = 1 /\ calls[d].sent = 1
        /\ micro = <<>>
        /\ \A b \in Ids : Settled(b)

\* C23: at every moment each call that has been transmitted and has not yet
\* settled has an entry in the registry under its fingerprint, and an entry
\* is removed only by the step in which a call with that entry settles.
C23_InFlightIsRegistered ==
    /\ [](\A c \in Ids : InFlight(c) => _isSending(sending, calls[c].desc))
    /\ [][ \A key \in DOMAIN sending :
             key \notin DOMAIN sending'
                 => \E c \in Ids :
                       /\ InFlight(c) /\ Settled(c)'
                       /\ key = _getRequestInfoHash(calls[c].desc)
                       /\ \A d \in Ids \ {c} :
                             InFlight(d) => _getRequestInfoHash(calls[d].desc) # key
         ]_vars

\* two calls of one fingerprint were transmitted; one has settled and removed
\* the entry, the other is in flight without an entry
C23_SharedEntryRemoved ==
    \E c \in Ids, d \in Ids :
        /\ c # d /\ ev.c = d /\ Settled(d) /\ calls[d].sent = 1
        /\ InFlight(c)
        /\ ~_isSending(sending, calls[c].desc)

\* C24: a call that takes the cache-hit branch leaves the registry alone: the
\* step that dispatches it into that branch and the step in which it settles
\* neither add nor remove a registry entry.
C24_CacheHitBypassesRegistry ==
    [][ \A c \in 1..Len(calls') :
          (ev'.c = c /\ (calls'[c].st = "hit" \/ (c \in Ids /\ calls[c].st = "hit")))
              => sending' = sending
      ]_vars

\* a call served from the cache has settled, and its afterSend has removed the
\* registry entry of a call of the same fingerprint that was transmitted after
\* the cache entry had expired
C24_HitRemovedEntry ==
    \E c \in Ids, d \in Ids :
        /\ ev.c = c /\ "onFulfilled" \in ev.ops /\ calls[c].sent = 0 /\ Settled(c)
        /\ d > c /\ InFlight(d)
        /\ ~_isSending(sending, calls[d].desc)

\* the loadApiConfig calls that have started and whose promise has not settled
LoadPending == {c \in Ids : calls[c].kind = "load" /\ calls[c].promise = "pending"}

\* C25: `loading` is true in exactly the states where a loadApiConfig call has
\* started and has not yet settled; at most one load is outstanding at a time.
C25_LoadingIffLoadOutstanding ==
    /\ loading = (LoadPending # {})
    /\ Cardinality(LoadPending) <= 1

\* the first of two overlapping loads has settled and cleared the flag while
\* the second is outstanding
C25_FlagClearedWhileLoading ==
    /\ ~loading
    /\ LoadPending # {}
    /\ \E c \in LoadPending : InFlight(c)

\* C26: a call entering the send branch invokes wx.showLoading only if it is
\* the first active call (no other call is in flight), or if it did not
\* suppress the indicator and no other call that did not suppress it is in
\* flight.
C26_ShownOncePerBatch ==
    \A c \in Ids :
        (Dispatched(c) /\ "wx.showLoading" \in ev.ops)
            => \/ \A d \in Ids \ {c} : ~InFlight(d)
               \/ /\ calls[c].desc._showLoading # FALSE
                  /\ \A d \in Ids \ {c} : ~(InFlight(d) /\ calls[d].desc._showLoading # FALSE)

\* a second call with the spinner has been transmitted and has invoked
\* wx.showLoading while the first, which showed it, is still in flight
C26_ShownAgainWhileShowing ==
    \E c \in Ids, d \in Ids :
        /\ d < c
        /\ InFlight(d) /\ calls[d].desc._showLoading # FALSE
        /\ Dispatched(c) /\ InFlight(c) /\ calls[c].desc._showLoading # FALSE
        /\ "wx.request" \in ev.ops /\ "wx.showLoading" \in ev.ops

\* ------------------------------------------------- two calls back to back
\* Calls to one endpoint that enable interception, with and without a cache
\* lifetime, queued behind a load or not.  Time can pass between any two steps
\* of the program, also between two calls issued one right after the other:
\* Elapse is Tick with `ev` left as the last step of the program wrote it.
MaxPairCalls == 3      \* number of calls issued in SpecPair

PairOptionSets ==
    { Options(TRUE, TRUE, NoTtl, "default"),
      Options(TRUE, TRUE, 1, "default"),
      Options(FALSE, TRUE, NoTtl, "default") }

Elapse ==
    /\ DOMAIN cache # {}
    /\ cache' = [key \in {k \in DOMAIN cache : cache[k].ttl > 1} |->
                    [cache[key] EXCEPT !.ttl = @ - 1]]
    /\ UNCHANGED <<heap, apiConfig, sending, loading, stalled, calls, micro, ev>>

NextPair ==
    \/ \E options \in PairOptionSets : SendRequestOf(MaxPairCalls, <<"getList">>, options)
    \/ \E options \in LoadOptionSets : LoadApiConfigOf(MaxPairCalls, options)
    \/ \E c \in 1..Len(calls) :
          \E requestResult \in TransportResults(IF calls[c].kind = "load" THEN "cfgA" ELSE "d1") :
             TransportComplete(c, requestResult)
    \/ RunSettle
    \/ RunLoaded
    \/ RunRelease
    \/ RunResolveThenable
    \/ RunAdopt
    \/ Elapse

SpecPair == Init /\ [][NextPair]_vars

\* the step just taken ran $sendHttpRequest for call c
DispatchStep(c) ==
    /\ c > Len(calls) \/ calls[c].st = "stalled"
    /\ ev'.c = c
    /\ ev'.ops \cap {"sendRequest", "loadApiConfig", "dfd.then"} # {}
    /\ calls'[c].st # "stalled"
\* c was dispatched by the last step of the program and d by this one, both
\* sendRequest calls that enable interception and have one fingerprint
BackToBack(c, d) ==
    /\ c # d
    /\ Dispatched(c) /\ calls[c].kind = "send"
    /\ DispatchStep(d) /\ calls'[d].kind = "send"
    /\ calls[c].desc._interceptDuplicateRequest /\ calls'[d].desc._interceptDuplicateRequest
    /\ _getRequestInfoHash(calls[c].desc) = _getRequestInfoHash(calls'[d].desc)

\* the duplicate check and the insertion are one step: a dispatched call is
\* blocked exactly when the registry, as that step found it, has its fingerprint
\* and the call enables interception, and a transmitted call is in the registry,
\* as that step leaves it, with nothing else changed
AtomicCheckAndInsert ==
    \A c \in 1..Len(calls') :
        DispatchStep(c)
            => /\ (calls'[c].st = "blocked")
                      = (_isSending(sending, calls'[c].desc)
                            /\ calls'[c].desc._interceptDuplicateRequest)
               /\ calls'[c].st = "inflight"
                      => sending' = _addToSending(sending, c, calls'[c].desc)
               /\ calls'[c].st # "inflight" => sending' = sending

\* C27 (as claimed): check and insertion are one step, and two identical calls
\* that enable interception and are dispatched one right after the other
\* (issued back-to-back, or released together) make exactly one transport
\* invocation.
C27_AtomicExactlyOne ==
    [][ /\ AtomicCheckAndInsert
        /\ \A c \in Ids, d \in 1..Len(calls') :
              BackToBack(c, d) => calls'[c].sent + calls'[d].sent = 1
      ]_vars

\* C27 (amended): check and insertion are one step; of two such calls at most
\* one is transmitted.  When the first was transmitted the second is blocked
\* (one transport invocation); when the first was blocked, by an earlier call
\* still in the registry, so is the second (none); when the first was served
\* from the cache, the second is served from it too (none) if the entry is
\* still alive when the second is dispatched, and transmitted (one) if it has
\* expired in between.
C27_AtomicAtMostOne ==
    [][ /\ AtomicCheckAndInsert
        /\ \A c \in Ids, d \in 1..Len(calls') :
              BackToBack(c, d)
                  => /\ calls[c].st \in {"inflight", "blocked", "hit"}
                     /\ calls'[c] = calls[c]
                     /\ calls'[c].sent + calls'[d].sent <= 1
                     /\ calls[c].st = "inflight"
                           => (calls[c].sent = 1 /\ calls'[d].st = "blocked" /\ calls'[d].sent = 0)
                     /\ calls[c].st = "blocked"
                           => (calls[c].sent = 0 /\ calls'[d].st = "blocked" /\ calls'[d].sent = 0)
                     /\ calls[c].st = "hit"
                           => /\ calls[c].sent = 0
                              /\ calls'[d].st =
                                    (IF storageHas(cache, _getRequestInfoHash(calls[c].desc))
                                     THEN "hit" ELSE "inflight")
                              /\ calls'[d].sent =
                                    (IF storageHas(cache, _getRequestInfoHash(calls[c].desc))
                                     THEN 0 ELSE 1)
      ]_vars

\* the first of two identical intercepting calls was served from the cache,
\* whose entry expired before the second was dispatched: the second has just
\* been transmitted while the reaction of the first is still waiting
C27_Witness ==
    \E c \in Ids, d \in Ids :
        /\ c < d /\ ev.c = d /\ "wx.request" \in ev.ops
        /\ calls[c].kind = "send" /\ calls[d].kind = "send"
        /\ calls[c].st = "hit" /\ calls[c].sent = 0 /\ calls[c].desc._interceptDuplicateRequest
        /\ \E i \in 1..Len(micro) : micro[i].t = "settle" /\ micro[i].c = c
        /\ calls[d].st = "inflight" /\ calls[d].sent = 1 /\ calls[d].desc._interceptDuplicateRequest
        /\ _getRequestInfoHash(calls[c].desc) = _getRequestInfoHash(calls[d].desc)
        /\ ~storageHas(cache, _getRequestInfoHash(calls[c].desc))

\* ------------------------------------------------------------ the life cycle
\* The transport calls one of `success` / `fail` for every request it was
\* given, and the reactions in the microtask queue run.
Complete(c) ==
    /\ c \in 1..Len(calls)
    /\ \E requestResult \in TransportResults(IF calls[c].kind = "load" THEN "cfgA" ELSE "d1") :
          TransportComplete(c, requestResult)

MaxLiveCalls == 2      \* number of calls issued in SpecLive

NextLive ==
    \/ \E name \in Names, options \in OptionSets :
          Len(calls) < MaxLiveCalls /\ SendRequest(name, options)
    \/ \E options \in LoadOptionSets :
          Len(calls) < MaxLiveCalls /\ LoadApiConfig(options)
    \/ \E c \in 1..Len(calls) : Complete(c)
    \/ RunSettle
    \/ RunLoaded
    \/ RunRelease
    \/ RunResolveThenable
    \/ RunAdopt
    \/ Tick

SpecLive ==
    /\ Init /\ [][NextLive]_vars
    /\ WF_vars(RunSettle) /\ WF_vars(RunLoaded) /\ WF_vars(RunRelease)
    /\ WF_vars(RunResolveThenable) /\ WF_vars(RunAdopt)
    /\ \A c \in 1..MaxLiveCalls : WF_vars(Complete(c))

\* the stage of the life cycle a call is in: created (queued or not),
\* in one of the three branches, settled
Stage(st) ==
    IF st \in {"new", "stalled"} THEN 0
    ELSE IF st \in {"hit", "blocked", "inflight"} THEN 1
    ELSE 2

\* C28: a dispatched call takes exactly one of the branches cache hit, blocked
\* duplicate, in flight; a call in the cache-hit or in-flight branch eventually
\* settles, and so does the promise returned for it, which settles once; no
\* call goes back to an earlier stage or changes its branch.
C28_Lifecycle ==
    /\ [][ \A c \in 1..Len(calls') :
             DispatchStep(c)
                 => /\ calls'[c].st \in {"hit", "blocked", "inflight"}
                    /\ (calls'[c].st = "hit") = ("from cache" \in ev'.ops)
                    /\ (calls'[c].st = "blocked") = ("logger.warn:duplicate" \in ev'.ops)
                    /\ (calls'[c].st = "inflight") = ("wx.request" \in ev'.ops)
         ]_vars
    /\ [][ \A c \in Ids :
             /\ Stage(calls'[c].st) >= Stage(calls[c].st)
             /\ Stage(calls'[c].st) = Stage(calls[c].st) => calls'[c].st = calls[c].st
             /\ calls[c].promise # "pending" => calls'[c].promise = calls[c].promise
             /\ calls'[c].promise # "pending" => Settled(c)'
         ]_vars
    /\ \A c \in 1..MaxLiveCalls :
          (c \in Ids /\ calls[c].st \in {"hit", "inflight"})
              ~> (c \in Ids /\ Settled(c) /\ calls[c].promise # "pending")

\* a call served from the cache has settled after the transmitted call that
\* wrote the entry, promises included
C28_Witness ==
    \E c \in Ids, d \in Ids :
        /\ ev.c = c /\ "onFulfilled" \in ev.ops
        /\ calls[c].sent = 0 /\ calls[c].st = "resolved" /\ calls[c].promise = "fulfilled"
        /\ d < c /\ calls[d].sent = 1 /\ calls[d].st = "resolved" /\ calls[d].promise = "fulfilled"

\* the store holds an entry under the key that has not expired
Live(key) == key \in DOMAIN cache /\ cache[key].ttl > 0

\* C29: a successful call with a non-negative `_cacheTtl` writes the cache
\* exactly when the store has no entry for its fingerprint; while an entry is
\* live no settling call replaces its value or changes its expiry.
C29_WriteOnlyWhenAbsent ==
    [][ (ev'.c # 0 /\ "onFulfilled" \in ev'.ops)
          => LET c == ev'.c
                 key == _getRequestInfoHash(calls[c].desc)
             IN /\ \A k \in DOMAIN cache :
                      Live(k) => (k \in DOMAIN cache' /\ cache'[k] = cache[k])
                /\ ("simpleStorage.has" \in ev'.ops)
                      = (calls'[c].st = "resolved" /\ calls[c].desc._cacheTtl >= 0)
                /\ ("simpleStorage.set" \in ev'.ops)
                      = ("simpleStorage.has" \in ev'.ops /\ ~Live(key))
                /\ IF "simpleStorage.set" \in ev'.ops
                   THEN /\ DOMAIN cache' = DOMAIN cache \cup {key}
                        /\ cache'[key].ttl = calls[c].desc._cacheTtl
                   ELSE cache' = cache
      ]_vars

\* a transmitted call with a `_cacheTtl` has settled as a success while the
\* entry another call wrote was live: it has tested the store and not written,
\* and the entry holds the other call's response
C29_Witness ==
    \E c \in Ids, d \in Ids :
        /\ c # d /\ ev.c = c
        /\ "simpleStorage.has" \in ev.ops /\ "simpleStorage.set" \notin ev.ops
        /\ calls[c].sent = 1 /\ calls[c].st = "resolved" /\ ev.data = "undefined"
        /\ calls[d].sent = 1 /\ calls[d].st = "resolved"
        /\ Cardinality(DOMAIN cache) = 1
        /\ \A key \in DOMAIN cache :
              /\ Live(key)
              /\ "status" \in DOMAIN cache[key].value.data
              /\ "data" \in DOMAIN cache[key].value.data

\* C30: when a call settles and the registry has no entry under its
\* fingerprint, _removeFromSending logs a warning, and the call settles all the
\* same.
C30_AbsentRemovalWarned ==
    [][ \A c \in Ids :
          (ev'.c = c /\ ev'.ops \cap {"onFulfilled", "onRejected"} # {}
              /\ ~_isSending(sending, calls[c].desc))
              => ("logger.warn:remove" \in ev'.ops /\ Settled(c)')
      ]_vars

\* the second of two transmitted calls of one fingerprint has settled after
\* the first had removed their entry, and no warning was logged
C30_AbsentRemovedSilently ==
    \E c \in Ids, d \in Ids :
        /\ c # d /\ ev.c = c /\ ev.ops \cap {"onFulfilled", "onRejected"} # {}
        /\ Settled(c) /\ calls[c].sent = 1
        /\ Settled(d) /\ calls[d].sent = 1
        /\ Len(calls) = 2 /\ calls[1].kind = "send" /\ calls[2].kind = "send"
        /\ calls[1].during = {} /\ cache = EmptyMap
        /\ "logger.warn:remove" \notin ev.ops

\* C31: the normalizer runs only in the fulfilment reaction, never in the
\* rejection reaction, and only on a payload the transport has just delivered
\* (the call is in flight), never on one taken from the cache, which holds
\* payloads that were normalized before they were stored.
C31_NormalizedOnce ==
    [][ (ev'.c # 0 /\ "_normalizeRequestResult" \in ev'.ops)
          => /\ "onFulfilled" \in ev'.ops
             /\ "onRejected" \notin ev'.ops
             /\ calls[ev'.c].st = "inflight"
      ]_vars

\* a call served from the cache has run the normalizer on the stored payload
\* and, the adapting normalizer not accepting its own output, has been rejected
C31_CachedNormalizedAgain ==
    \E c \in Ids :
        /\ ev.c = c /\ "_normalizeRequestResult" \in ev.ops
        /\ calls[c].sent = 0
        /\ calls[c].st = "rejected"
        /\ \E key \in DOMAIN cache :
              /\ "statusInfo" \in DOMAIN cache[key].value.data
              /\ cache[key].value.data.statusInfo.message = "adapted"

\* ------------------------------------------- resolution and stored objects
\* Whether resolving a descriptor writes to a stored object is a question of
\* which object an assignment lands in, so SpecPure tracks the objects by
\* address, in `heap` (the other specifications work on values and leave it
\* empty).  heap[a] is the object at address a: its kind (a plain object, an
\* array, or an instance of a class), its own properties, what it is
\* (this.apiConfig, an entry of it, the default request options, the options
\* object of call c, the copy `api` made for call c, the descriptor of call c,
\* or an object nested in one of these), and the value it was created with.
\* A property that holds an object holds its address, [ref |-> a].
MaxPureCalls == 2      \* number of calls issued in SpecPure

\* the keys whose values can be objects, in the order in which the objects of
\* a literal are created
RefOrder == <<"header", "list", "data">>
\* the value under key k is an object (not a primitive)
holdsObject(value, k) ==
    k \in DOMAIN value /\ (k \in ObjectKeys \cup ArrayKeys \/ (k \in DataKeys /\ ~falsy(value[k])))
\* the property k of an object of the heap holds an address
isRef(props, k) ==
    k \in DOMAIN props
        /\ (k \in ObjectKeys \cup ArrayKeys \/ (k \in DataKeys /\ "ref" \in DOMAIN props[k]))
\* what extend takes the object under key k for: a plain object, an array, or
\* anything else (an instance of a class), of which it copies the reference
kindOf(k, value) ==
    IF k \in ObjectKeys THEN "object"
    ELSE IF k \in ArrayKeys THEN "array"
    ELSE IF isPlainObject(value) THEN "object" ELSE "instance"

\* the endpoint configuration of SpecPure: an entry with nested values
PureApiConfig ==
    (<<"getList">> :> [method |-> "GET", url |-> <<"u1">>, header |-> [accept |-> "a1"],
                       list |-> <<"a", "b">>, data |-> [q |-> 1]])

Object(kind, props, of, c, name) ==
    [kind |-> kind, props |-> props, of |-> of, c |-> c, name |-> name, init |-> props]

\* an object literal with the value `value`: its nested objects, then the
\* object itself, which gets the last address
alloc(H, value, of, c, name) ==
    LET keys == SelectSeq(RefOrder, LAMBDA k : holdsObject(value, k))
        nested == [i \in 1..Len(keys) |->
                      Object(kindOf(keys[i], value[keys[i]]), value[keys[i]], "nested", c, name)]
        refs == [k \in {k \in DOMAIN value : holdsObject(value, k)} |->
                    [ref |-> Len(H) + (CHOOSE i \in 1..Len(keys) : keys[i] = k)]]
    IN Append(H \o nested, [Object("object", refs @@ value, of, c, name) EXCEPT !.init = value])

\* the address of this.apiConfig, of the options object and of the descriptor
\* of call c
RootAddr(H) == CHOOSE a \in 1..Len(H) : H[a].of = "apiConfig"
OptionsAddr(H, c) == CHOOSE a \in 1..Len(H) : H[a].of = "options" /\ H[a].c = c
DescAddr(H, c) == CHOOSE a \in 1..Len(H) : H[a].of = "desc" /\ H[a].c = c

RECURSIVE allocEntries(_, _, _)
allocEntries(H, cfg, names) ==
    IF names = {} THEN H
    ELSE LET name == CHOOSE n \in names : TRUE
         IN allocEntries(alloc(H, cfg[name], "entry", 0, name), cfg, names \ {name})

\* the objects a constructed instance holds: the default request options, the
\* entries of the endpoint configuration and this.apiConfig itself
InitHeap(cfg) ==
    LET H == allocEntries(alloc(<<>>, defaultRequestOptions, "defaults", 0, <<>>), cfg, DOMAIN cfg)
        entry(name) == CHOOSE a \in 1..Len(H) : H[a].of = "entry" /\ H[a].name = name
    IN Append(H, [Object("object", [name \in DOMAIN cfg |-> [ref |-> entry(name)]],
                         "apiConfig", 0, <<>>) EXCEPT !.init = cfg])

\* the value of the object at an address, nested objects included
valueAt(H, a) ==
    LET props == H[a].props
    IN [k \in DOMAIN props |-> IF isRef(props, k) THEN H[props[k].ref].props ELSE props[k]]
\* the value of this.apiConfig
storedConfig(H) ==
    LET props == H[RootAddr(H)].props
    IN [name \in DOMAIN props |-> valueAt(H, props[name].ref)]

\* extend(true, target, src) for one key that holds an object: a plain object
\* or an array is merged into the plain object or array the target has under
\* the key, or into a new one; any other object is assigned as it is
extendKey(H, target, src, k) ==
    IF ~isRef(H[src].props, k) THEN H
    ELSE LET copy == H[src].props[k]
         IN IF H[copy.ref].kind = "instance"
            THEN [H EXCEPT ![target].props = (k :> copy) @@ @]
            ELSE LET has == isRef(H[target].props, k)
                            /\ H[H[target].props[k].ref].kind = H[copy.ref].kind
                     clone == IF has THEN H[target].props[k].ref ELSE Len(H) + 1
                     H1 == IF has THEN H
                           ELSE Append(H, Object(H[copy.ref].kind, <<>>, "nested",
                                                 H[target].c, H[target].name))
                     merged == IF H[copy.ref].kind = "array"
                               THEN extendArray(H1[clone].props, H[copy.ref].props)
                               ELSE H[copy.ref].props @@ H1[clone].props
                 IN [H1 EXCEPT ![clone].props = merged,
                               ![target].props = (k :> [ref |-> clone]) @@ @]

\* extend(true, target, src): writes to the target and to the objects it made
\* for the target, never to src or to an object src refers to
extendHeap(H, target, src) ==
    LET props == H[src].props
        H0 == [H EXCEPT ![target].props =
                            [k \in {k \in DOMAIN props : ~isRef(props, k)} |-> props[k]] @@ @]
    IN extendKey(extendKey(extendKey(H0, target, src, RefOrder[1]),
                           target, src, RefOrder[2]), target, src, RefOrder[3])

\* (variant) `api = _api`: the variable refers to the stored entry
cloneApi_alias(H, _api, c) == [heap |-> H, api |-> _api]

\* `api = extend(true, {}, _api)`: the heap after it and the address of `api`
cloneApi(H, _api, c) ==
    LET H1 == Append(H, Object("object", <<>>, "api", c, <<>>))
    IN [heap |-> extendHeap(H1, Len(H1), _api), api |-> Len(H1)]

\* BackendApi._getRequestOptions on the heap: the heap it leaves, the
\* descriptor being the object "desc" of call c
getRequestOptionsHeap(H, name, options, namespace, c) ==
    LET slashIndex == indexOf(name, "/")
        _name0 == IF slashIndex # 0 THEN SubSeq(name, 1, slashIndex - 1) ELSE name
        urlAppend == IF slashIndex # 0 THEN SubSeq(name, slashIndex, Len(name)) ELSE <<>>
        _name == IF namespace # <<>> THEN namespace \o <<".">> \o _name0 ELSE _name0
        defaults == CHOOSE a \in 1..Len(H) : H[a].of = "defaults"
        found == name # <<>> /\ _name \in DOMAIN H[RootAddr(H)].props
        A == cloneApi(H, H[RootAddr(H)].props[_name].ref, c)
        \* api.url = api.url + urlAppend
        H1 == IF found THEN [A.heap EXCEPT ![A.api].props.url = @ \o urlAppend] ELSE H
        \* extend(true, {}, this.defaultRequestOptions, api, options)
        H2 == Append(H1, Object("object", <<>>, "desc", c, <<>>))
        H3 == extendHeap(H2, Len(H2), defaults)
        H4 == IF found THEN extendHeap(H3, Len(H2), A.api) ELSE H3
    IN extendHeap(H4, Len(H2), options)

\* the assignments $sendHttpRequest makes to the descriptor (_url, success, fail)
writeDescriptor(H, c, requestOptions) ==
    [H EXCEPT ![DescAddr(H, c)].props =
                  [k \in {k \in DOMAIN requestOptions : ~holdsObject(requestOptions, k)} |->
                      requestOptions[k]] @@ @]

PureNames == {<<"getList">>, <<"getList", "/", "7">>, <<"getUser">>}
PureOptionSets ==
    { Options(FALSE, TRUE, NoTtl, "default"),
      Options(TRUE, TRUE, NoTtl, "default"),
      [header |-> [token |-> "t1"], list |-> <<"c">>, data |-> [instance |-> "FormData"]]
          @@ Options(FALSE, TRUE, NoTtl, "default"),
      [data |-> [r |-> 2]] @@ Options(FALSE, TRUE, NoTtl, "default") }

InitPure ==
    /\ apiConfig = PureApiConfig
    /\ sending = EmptyMap
    /\ loading = FALSE
    /\ stalled = <<>>
    /\ cache = EmptyMap
    /\ calls = <<>>
    /\ micro = <<>>
    /\ heap = InitHeap(PureApiConfig)
    /\ ev = NoEvent(0)

\* BackendApi.sendRequest(name, options), options being an object of the caller
SendPure(name, options) ==
    /\ Len(calls) < MaxPureCalls
    /\ ~stalls(loading)
    /\ LET c == Len(calls) + 1
           cs == Append(calls, NewCall("send", name, options, calls))
           S == [St(cs, sending, cache, micro) EXCEPT !.ops = {"sendRequest"}]
           H0 == alloc(heap, options, "options", c, <<>>)
           H1 == getRequestOptionsHeap(H0, name, Len(H0), <<>>, c)
           R == sendHttpRequest(S, c, valueAt(H1, DescAddr(H1, c)))
           H2 == writeDescriptor(H1, c, R.calls[c].desc)
       IN /\ calls' = R.calls
          /\ sending' = R.sending
          /\ cache' = R.cache
          /\ micro' = R.micro
          /\ heap' = H2
          /\ apiConfig' = storedConfig(H2)
          /\ ev' = [c |-> c, ops |-> R.ops, data |-> R.data]
    /\ UNCHANGED <<loading, stalled>>

\* wx.request rewriting requestOptions.url of a call in flight
RewritePure(c) ==
    /\ c \in 1..Len(calls)
    /\ calls[c].st = "inflight"
    /\ "url" \in DOMAIN calls[c].desc
    /\ calls[c].desc.url = calls[c].desc._url
    /\ heap' = [heap EXCEPT ![DescAddr(heap, c)].props.url = @ \o <<"?">>]
    /\ calls' = [calls EXCEPT ![c].desc = valueAt(heap', DescAddr(heap, c))]
    /\ apiConfig' = storedConfig(heap')
    /\ ev' = [c |-> c, ops |-> {"wx.request:url"}, data |-> "undefined"]
    /\ UNCHANGED <<sending, loading, stalled, cache, micro>>

NextPure ==
    \/ \E name \in PureNames, options \in PureOptionSets : SendPure(name, options)
    \/ \E c \in 1..Len(calls) : RewritePure(c)
    \/ \E c \in 1..Len(calls) :
          \E requestResult \in TransportResults("d1") : TransportComplete(c, requestResult)
    \/ RunResolveThenable
    \/ RunAdopt

SpecPure == InitPure /\ [][NextPure]_vars

\* the addresses an object refers to
refsOf(H, a) ==
    IF H[a].of = "apiConfig" THEN {H[a].props[name].ref : name \in DOMAIN H[a].props}
    ELSE IF H[a].of = "nested" THEN {}
    ELSE {H[a].props[k].ref : k \in {k \in DOMAIN H[a].props : isRef(H[a].props, k)}}

\* C32: resolution does not write to stored state: after any sequence of
\* sendRequest calls (names with a suffix included, and with the descriptor
\* written to by $sendHttpRequest and the transport afterwards) the endpoint
\* configuration and its entries, the default request options and the options
\* object of every caller, nested objects and arrays included, have the value
\* they were created with; and no plain object or array that one of them
\* refers to is referred to by any other object (a descriptor shares with the
\* caller's options only the objects that are instances of a class).
C32_ResolutionIsPure ==
    /\ apiConfig = PureApiConfig
    /\ storedConfig(heap) = PureApiConfig
    /\ \A a \in 1..Len(heap) :
          /\ heap[a].of \in {"entry", "defaults", "options"} => valueAt(heap, a) = heap[a].init
          /\ heap[a].of \in {"apiConfig", "entry", "defaults", "options"}
                => \A r \in refsOf(heap, a) :
                      \A b \in 1..Len(heap) \ {a} :
                          r \in refsOf(heap, b) => heap[r].kind = "instance"

\* a call named with a suffix, whose options hold an object, an array and an
\* instance of a class, has been transmitted and the transport has rewritten
\* its url; the stored entry has the url it was configured with, and the header
\* of the descriptor is neither the header of the options nor that of the
\* entry, while its data is the very object the caller passed
C32_Witness ==
    \E c \in Ids :
        /\ ev.c = c /\ "wx.request:url" \in ev.ops
        /\ calls[c].name = <<"getList", "/", "7">>
        /\ calls[c].desc._url = <<"u1", "/", "7">>
        /\ calls[c].desc.url = <<"u1", "/", "7", "?">>
        /\ heap[DescAddr(heap, c)].props.url = <<"u1", "/", "7", "?">>
        /\ apiConfig[<<"getList">>].url = <<"u1">>
        /\ {"header", "list", "data"} \subseteq DOMAIN heap[OptionsAddr(heap, c)].props
        /\ LET desc == heap[DescAddr(heap, c)].props
               options == heap[OptionsAddr(heap, c)].props
               entry == heap[heap[RootAddr(heap)].props[<<"getList">>].ref].props
           IN /\ desc.header.ref # options.header.ref
              /\ desc.header.ref # entry.header.ref
              /\ desc.list.ref # options.list.ref
              /\ desc.list.ref # entry.list.ref
              /\ desc.data.ref = options.data.ref
              /\ valueAt(heap, DescAddr(heap, c)).list = <<"c", "b">>
        /\ Len(calls) = 2 /\ Settled(1)

\* no transmitted call is outstanding
NoneInFlight == \A c \in Ids : ~InFlight(c)
ShowOps == {"wx.showLoading", "wx.showNavigationBarLoading"}

\* C33: whenever no transmitted call is outstanding the registry is empty and
\* the last indicator operation, if there was one, was a hide: the step in
\* which the last outstanding call settles invokes _hideLoading, and no step
\* that leaves no call outstanding invokes a show operation.
C33_QuiescentIsClean ==
    /\ [](NoneInFlight => (sending = EmptyMap /\ ev.ops \cap ShowOps = {}))
    /\ [][ (~NoneInFlight /\ NoneInFlight')
             => {"wx.hideLoading", "wx.hideNavigationBarLoading"} \subseteq ev'.ops
         ]_vars

\* three transmitted calls, two of one fingerprint and one with the spinner
\* suppressed, have all settled, the suppressed one last
C33_Witness ==
    /\ Len(calls) = 3 /\ NoneInFlight
    /\ \A c \in Ids : calls[c].sent = 1 /\ Settled(c)
    /\ ev.c = 3 /\ "afterSend" \in ev.ops /\ "wx.hideLoading" \in ev.ops
    /\ sending = EmptyMap
    /\ calls[1].kind = "send" /\ calls[2].kind = "send" /\ calls[3].kind = "send"

\* ------------------------------------- a fingerprint that always intercepts
\* Every call to getList enables _interceptDuplicateRequest and none sets a
\* `_cacheTtl`; the calls to getUser and the configuration loads are as in Spec.
InterceptOptionSets ==
    { Options(TRUE, TRUE, NoTtl, "default"), Options(TRUE, FALSE, NoTtl, "default") }

NextIntercept ==
    \/ \E options \in InterceptOptionSets : SendRequest(<<"getList">>, options)
    \/ \E options \in OptionSets : SendRequest(<<"getUser">>, options)
    \/ \E options \in LoadOptionSets : LoadApiConfig(options)
    \/ \E c \in 1..Len(calls) : Complete(c)
    \/ RunSettle
    \/ RunLoaded
    \/ RunRelease
    \/ RunResolveThenable
    \/ RunAdopt
    \/ Tick

SpecIntercept == Init /\ [][NextIntercept]_vars

\* the fingerprint of the calls to getList
GetListHash ==
    _getRequestInfoHash(withUrl(_getRequestOptions(InitApiConfig, <<"getList">>, EmptyMap, <<>>)))
\* the transport invocations outstanding for a fingerprint
OutstandingFor(h) == {c \in Ids : InFlight(c) /\ _getRequestInfoHash(calls[c].desc) = h}

\* C34: every call of the fingerprint of getList enables interception and the
\* cache has no entry for it: at any time at most one transport invocation for
\* that fingerprint is outstanding, and every transport invocation made for it
\* was made while none was outstanding.
C34_OneOutstandingPerFingerprint ==
    /\ GetListHash \notin DOMAIN cache
    /\ Cardinality(OutstandingFor(GetListHash)) <= 1
    /\ \A c \in Ids :
          (calls[c].name = <<"getList">> /\ calls[c].st \notin {"new", "stalled"})
              => /\ calls[c].desc._interceptDuplicateRequest
                 /\ _getRequestInfoHash(calls[c].desc) = GetListHash
                 /\ calls[c].st \in {"inflight", "blocked"}

\* a call to getList has settled, a second one was transmitted after that and
\* is in flight, and a third one, issued meanwhile, is blocked
C34_Witness ==
    /\ Len(calls) = 3
    /\ Settled(1) /\ calls[1].sent = 1 /\ calls[1].kind = "send"
    /\ InFlight(2) /\ calls[2].name = <<"getList">>
    /\ calls[3].st = "blocked" /\ calls[3].name = <<"getList">>
    /\ OutstandingFor(GetListHash) = {2}

\* the completion has a statusCode, which is in 200..299 or is 304
HttpOk(requestResult) ==
    /\ "statusCode" \in DOMAIN requestResult
    /\ requestResult.statusCode \in (200..299) \cup {304}

\* C35: every failed call carries one `_errorType`, which is A, H or B: A
\* exactly when the completion has no statusCode, H exactly when it has one
\* that is neither in 200..299 nor 304, B exactly when the HTTP status is a
\* success (and then the business test on the normalized body has failed); a
\* call that succeeded carries none.
C35_CategoriesPartition ==
    SettledStep
        => IF calls[1].st = "rejected"
           THEN /\ Category \in {"A", "H", "B"}
                /\ (Category = "A") = ("statusCode" \notin DOMAIN ev.requestResult)
                /\ (Category = "H") = ("statusCode" \in DOMAIN ev.requestResult
                                          /\ ~HttpOk(ev.requestResult))
                /\ (Category = "B") = HttpOk(ev.requestResult)
                /\ Category = "B" => (falsy(Normalized) \/ ~StatusFalsyOrZero(Normalized))
           ELSE /\ calls[1].st = "resolved"
                /\ HttpOk(ev.requestResult)
                /\ "_errorType" \notin DOMAIN Envelope

\* a completion without statusCode and without errMsg has been classified A
\* with the default status
C35_Witness ==
    /\ SettledStep
    /\ ev.requestResult = EmptyMap
    /\ calls[1].st = "rejected"
    /\ Category = "A"
    /\ Envelope.status = REQUEST_API_FAIL_STATUS

\* ---------------------------------------------- the queue across two loads
\* Four calls to one endpoint with the default options, and configuration
\* loads, so that calls can be queued behind a load that fails and behind a
\* later one.
MaxQueueCalls == 4      \* number of calls issued in SpecQueue

NextQueue ==
    \/ SendRequestOf(MaxQueueCalls, <<"getUser">>, Options(FALSE, TRUE, NoTtl, "default"))
    \/ \E options \in LoadOptionSets : LoadApiConfigOf(MaxQueueCalls, options)
    \/ \E c \in 1..Len(calls) : Complete(c)
    \/ RunLoaded
    \/ RunRelease
    \/ RunResolveThenable
    \/ RunAdopt

SpecQueue == Init /\ [][NextQueue]_vars

\* the calls of the release reactions in a microtask queue, in queue order
Released(mq) ==
    LET idx == {i \in 1..Len(mq) : mq[i].t = "release"}
        nth(n) == CHOOSE i \in idx : Cardinality({j \in idx : j < i}) = n - 1
    IN [n \in 1..Cardinality(idx) |-> mq[nth(n)].c]

\* C36: the calls queued while a load was outstanding are not lost when that
\* load fails: the failure reaction leaves the queue as it is, the queue holds
\* the queued calls in the order they were issued, and the success reaction of
\* a later load releases all of them in that order, the earlier-queued calls
\* ahead of the later-queued ones.
C36_QueueSurvivesFailedLoad ==
    /\ [](/\ \A i \in 1..Len(stalled), j \in 1..Len(stalled) : i < j => stalled[i] < stalled[j]
          /\ \A c \in Ids :
                (calls[c].st = "stalled")
                    = \/ \E i \in 1..Len(stalled) : stalled[i] = c
                      \/ \E i \in 1..Len(Released(micro)) : Released(micro)[i] = c
          /\ \A c \in Ids :
                (ev.c = c /\ "dfd.then" \in ev.ops)
                    => /\ \A b \in 1..(c - 1) : calls[b].st # "stalled"
                       /\ \A i \in 1..Len(Released(micro)) : Released(micro)[i] > c)
    /\ [][ /\ "loadApiConfig.onRejected" \in ev'.ops => stalled' = stalled
           /\ "loadApiConfig.onFulfilled" \in ev'.ops
                 => (stalled' = <<>> /\ Released(micro') = Released(micro) \o stalled)
           /\ (stalled' # stalled /\ "loadApiConfig.onFulfilled" \notin ev'.ops)
                 => (stalled' = Append(stalled, ev'.c) /\ ev'.ops = {"sendRequest"})
         ]_vars

\* a call queued behind a load that failed has been released by the success
\* of a second load, and the reaction of a call queued behind the second load
\* is next
C36_Witness ==
    /\ Len(calls) = 4
    /\ calls[1].kind = "load" /\ calls[1].st = "rejected" /\ calls[1].promise = "fulfilled"
    /\ calls[3].kind = "load" /\ calls[3].st = "resolved"
    /\ ev.c = 2 /\ "dfd.then" \in ev.ops /\ calls[2].during = {1}
    /\ micro # <<>> /\ Head(micro).t = "release" /\ Head(micro).c = 4
    /\ calls[4].st = "stalled"

\* --------------------------------------------- the cache on the hit path
\* C37: a call served from the cache never writes the cache: neither the step
\* that takes the stored payload nor the reaction that settles the call
\* creates or replaces an entry or changes an expiry, whether or not the entry
\* expires between the two.
C37_HitNeverWrites ==
    [][ /\ "from cache" \in ev'.ops => cache' = cache
        /\ \A c \in Ids : (calls[c].st = "hit" /\ ev'.c = c /\ "onFulfilled" \in ev'.ops)
              => /\ cache' = cache
                 /\ "simpleStorage.set" \notin ev'.ops
      ]_vars

\* a call served from the cache has settled after the entry had expired, and
\* has stored the payload it was served under a new expiry
C37_HitWroteEntry ==
    \E c \in Ids :
        /\ ev.c = c /\ "simpleStorage.set" \in ev.ops
        /\ calls[c].sent = 0 /\ calls[c].st = "resolved"
        /\ calls[c].promise = "fulfilled"
        /\ Cardinality(DOMAIN cache) = 1
        /\ \A key \in DOMAIN cache : Live(key)

\* C38: a call issued without `_cacheTtl` whose fingerprint has a live cache
\* entry when it is dispatched is served from the cache (the stored payload
\* is handed to its reaction) and is not transmitted.
C38_ReadNeedsNoOptIn ==
    [][ \A c \in Ids' :
          ( /\ ev'.c = c
            /\ ev'.ops \cap {"sendRequest", "loadApiConfig", "dfd.then"} # {}
            /\ calls'[c].st # "stalled"
            /\ calls'[c].desc._cacheTtl = NoTtl
            /\ Live(_getRequestInfoHash(calls'[c].desc)) )
          => /\ calls'[c].st = "hit"
             /\ calls'[c].sent = 0
             /\ "from cache" \in ev'.ops
             /\ "wx.request" \notin ev'.ops
             /\ sending' = sending
             /\ \E i \in 1..Len(micro') :
                   /\ i > Len(micro) - 1
                   /\ micro'[i] = [t |-> "settle", c |-> c,
                                   requestResult |-> cache[_getRequestInfoHash(calls'[c].desc)].value]
      ]_vars

\* a call without `_cacheTtl` that asks for duplicate interception has just
\* been dispatched while the entry of its fingerprint was live, and waits for
\* the reaction of the cache hit
C38_Witness ==
    \E c \in Ids :
        /\ ev.c = c /\ "from cache" \in ev.ops
        /\ calls[c].st = "hit" /\ calls[c].sent = 0
        /\ calls[c].options._cacheTtl = NoTtl
        /\ calls[c].options._interceptDuplicateRequest
        /\ Live(_getRequestInfoHash(calls[c].desc))

\* C39: in every reachable state no fingerprint has both a live cache entry
\* and an entry in the registry of in-flight calls: an entry is added to the
\* registry only for a fingerprint without a live cache entry, and the cache is
\* written only under a fingerprint the same step has left without a registry
\* entry; hence a call is never blocked as a duplicate while the cache holds a
\* live entry for it, and testing the cache first would choose the same branch.
C39_CacheAndRegistryDisjoint ==
    /\ [](\A h \in DOMAIN sending : ~Live(h))
    /\ [][ /\ \A h \in DOMAIN sending' \ DOMAIN sending : ~Live(h)
           /\ \A h \in DOMAIN cache' :
                 (h \notin DOMAIN cache \/ cache'[h] # cache[h]) => h \notin DOMAIN sending'
           /\ \A c \in Ids' :
                 (ev'.c = c /\ "logger.warn:duplicate" \in ev'.ops)
                    => ~Live(_getRequestInfoHash(calls'[c].desc))
      ]_vars

\* a call is in flight and registered under one fingerprint while the cache
\* holds a live entry under another one
C39_Witness ==
    /\ \E h \in DOMAIN sending : \E k \in DOMAIN cache : h # k /\ Live(k)
    /\ \E c \in Ids :
          /\ InFlight(c)
          /\ _getRequestInfoHash(calls[c].desc) \in DOMAIN sending
          /\ sending[_getRequestInfoHash(calls[c].desc)] = c
    /\ \E d \in Ids : calls[d].st = "resolved" /\ calls[d].sent = 1

====
